---- MODULE Spec2Model ----
(***************************************************************************)
(* Verification model of taro-core: the execution state enum, the          *)
(* lifecycle ledger (ExecutionLifecycle / ExecutionLifecycleManagement),   *)
(* ExecutionError, lifecycle copies held by JobInfo snapshots, and the     *)
(* output-observer dispatch of ProcessExecution.                           *)
(***************************************************************************)
EXTENDS FiniteSets, Integers, Sequences, TLC

(***************************************************************************)
(* Bounds of the model.                                                    *)
(***************************************************************************)
\* number of set_state calls made on the live ledger
MaxCalls == 3
\* the clock shows 0..MaxClock
MaxClock == 2
\* number of JobInfo snapshots created
MaxInfos == 1
\* number of ExecutionError objects constructed
MaxErrors == 2
\* length of the output observers' list
MaxObservers == 3
\* number of output lines notified
MaxOutputs == 2
\* number of stop() and interrupt() calls made on the execution
MaxSignals == 2
\* maxsize of the output queue, scaled down from the 2048 of process.py
QueueMaxsize == 2
\* number of write() calls the child makes on the captured stdout
MaxWrites == 3
\* number of datagrams the clients send to the server's socket
MaxDatagrams == 2
\* number of start() and close() calls made on the server
MaxServerCalls == 3
\* number of communicate() calls made by the clients
MaxCommunicates == 3
\* number of modules put on the import path
MaxInstalls == 2
\* largest completed and total of a progress
MaxTotal == 2
\* largest max_events of a task, standing for the default of 100
MaxCapacity == 2
\* number of add_event calls on a task
MaxAdds == 3

\* Optional[datetime]: None is the empty tuple, a datetime t is Some(t)
None == <<>>

Some(t) == <<t>>

\* None given where an ExecutionState, an exception or a message is expected
NoneValue == "None"

(***************************************************************************)
(* execution.py: ExecutionStateGroup and ExecutionState                    *)
(***************************************************************************)
ExecutionStateGroup ==
    {"BEFORE_EXECUTION", "EXECUTING", "TERMINAL", "NOT_EXECUTED", "FAILURE"}

\* the enum's members, each with the set of groups given as its value
groups ==
    [NONE         |-> {},
     CREATED      |-> {"BEFORE_EXECUTION"},
     DISABLED     |-> {"TERMINAL"},
     PENDING      |-> {"BEFORE_EXECUTION"},
     WAITING      |-> {"BEFORE_EXECUTION"},
     TRIGGERED    |-> {"EXECUTING"},
     STARTED      |-> {"EXECUTING"},
     RUNNING      |-> {"EXECUTING"},
     COMPLETED    |-> {"TERMINAL"},
     STOPPED      |-> {"TERMINAL"},
     CANCELLED    |-> {"TERMINAL", "NOT_EXECUTED"},
     SKIPPED      |-> {"TERMINAL", "NOT_EXECUTED"},
     SUSPENDED    |-> {"TERMINAL", "NOT_EXECUTED"},
     START_FAILED |-> {"TERMINAL", "FAILURE"},
     INTERRUPTED  |-> {"TERMINAL", "FAILURE"},
     FAILED       |-> {"TERMINAL", "FAILURE"},
     ERROR        |-> {"TERMINAL", "FAILURE"}]

ExecutionState == DOMAIN groups

is_before_execution(s) == "BEFORE_EXECUTION" \in groups[s]

is_executing(s) == "EXECUTING" \in groups[s]

is_terminal(s) == "TERMINAL" \in groups[s]

is_failure(s) == "FAILURE" \in groups[s]

(***************************************************************************)
(* An OrderedDict[ExecutionState, datetime]: a sequence of entries with    *)
(* distinct keys, in insertion order.                                      *)
(***************************************************************************)
Entry(s, t) == [state |-> s, changed |-> t]

Keys(d) == {d[i].state : i \in 1..Len(d)}

\* d[k] = v: a key already present keeps its position and gets the new
\* value, a new key is added at the end
DictSet(d, k, v) ==
    IF k \in Keys(d)
    THEN [i \in 1..Len(d) |-> IF d[i].state = k THEN Entry(k, v) ELSE d[i]]
    ELSE Append(d, Entry(k, v))

(***************************************************************************)
(* execution.py: ExecutionLifecycle, the read side.  d is the object's     *)
(* _state_changes.                                                         *)
(***************************************************************************)
state_default_created(d) == IF Len(d) = 0 THEN "CREATED" ELSE d[Len(d)].state

\* next(reversed(keys), NONE)
state(d) == IF Len(d) = 0 THEN "NONE" ELSE d[Len(d)].state

states(d) == [i \in 1..Len(d) |-> d[i].state]

state_changes(d) == [i \in 1..Len(d) |-> <<d[i].state, d[i].changed>>]

\* self._state_changes[state]; a KeyError when the key is absent
changed(d, s) ==
    IF s \in Keys(d)
    THEN Some(d[CHOOSE i \in 1..Len(d) : d[i].state = s].changed)
    ELSE <<"KeyError">>

last_changed(d) == IF Len(d) = 0 THEN None ELSE Some(d[Len(d)].changed)

RECURSIVE NextExecuting(_, _)
\* next(changed for state, changed in items if state.is_executing(), None),
\* scanning from position i
NextExecuting(d, i) ==
    IF i > Len(d) THEN None
    ELSE IF is_executing(d[i].state) THEN Some(d[i].changed)
    ELSE NextExecuting(d, i + 1)

execution_started_last(d) ==
    LET ex == SelectSeq(d, LAMBDA e : is_executing(e.state))
    IN  IF Len(ex) = 0 THEN None ELSE Some(ex[Len(ex)].changed)

execution_started(d) == NextExecuting(d, 1)

executed(d) == execution_started(d) # None

execution_finished(d) ==
    IF ~is_terminal(state(d)) THEN None ELSE changed(d, state(d))

\* a datetime is never falsy, so "not finished" is "finished is None"
execution_time(d) ==
    LET finished == execution_finished(d)
        started == execution_started(d)
    IN  IF finished = None THEN None
        ELSE IF started = None THEN None
        ELSE Some(finished[1] - started[1])

RECURSIVE OrderedDictOf(_, _)
\* OrderedDict(pairs): the pairs set one by one, in order, onto d
OrderedDictOf(pairs, d) ==
    IF Len(pairs) = 0 THEN d
    ELSE OrderedDictOf(Tail(pairs), DictSet(d, Head(pairs)[1], Head(pairs)[2]))

(***************************************************************************)
(* execution.py: ExecutionLifecycleManagement.set_state, as the pair of    *)
(* its return value and the _state_changes it leaves.  t is now(utc).      *)
(***************************************************************************)
set_state_no_same_check(d, new_state, t) ==
    IF new_state = NoneValue \/ new_state = "NONE"
    THEN [ret |-> FALSE, changes |-> d]
    ELSE [ret |-> TRUE, changes |-> DictSet(d, new_state, t)]

set_state_no_none_check(d, new_state, t) ==
    IF new_state = NoneValue \/ state(d) = new_state
    THEN [ret |-> FALSE, changes |-> d]
    ELSE [ret |-> TRUE, changes |-> DictSet(d, new_state, t)]

set_state(d, new_state, t) ==
    IF new_state = NoneValue \/ new_state = "NONE" \/ state(d) = new_state
    THEN [ret |-> FALSE, changes |-> d]
    ELSE [ret |-> TRUE, changes |-> DictSet(d, new_state, t)]

(***************************************************************************)
(* execution.py: ExecutionError.  The constructor either raises ValueError *)
(* or leaves an object with the fields it was given.                       *)
(***************************************************************************)
ExecutionError_init_terminal_check(message, exec_state, unexpected_error) ==
    IF ~is_terminal(exec_state)
    THEN [raised |-> "ValueError", error |-> NoneValue]
    ELSE [raised |-> NoneValue,
          error |-> [message |-> message, exec_state |-> exec_state,
                     unexpected_error |-> unexpected_error]]

ExecutionError_init(message, exec_state, unexpected_error) ==
    IF ~is_failure(exec_state)
    THEN [raised |-> "ValueError", error |-> NoneValue]
    ELSE [raised |-> NoneValue,
          error |-> [message |-> message, exec_state |-> exec_state,
                     unexpected_error |-> unexpected_error]]

from_unexpected_error(e) == ExecutionError_init("Unexpected error", "ERROR", e)

(***************************************************************************)
(* process.py: ProcessExecution's output observers.  An observer is an     *)
(* object of one of three shapes; raises is what its output_update or      *)
(* __call__ raises when invoked (NoneValue: it returns).                   *)
(***************************************************************************)
ObserverPool ==
    [kind : {"ExecutionOutputObserver", "callable"},
     raises : {NoneValue, "Exception", "KeyboardInterrupt"}]
      \cup {[kind |-> "unsupported", raises |-> NoneValue]}

\* list.remove(x): the first occurrence goes
ListRemove(l, x) ==
    LET k == CHOOSE i \in 1..Len(l) : l[i] = x /\ \A j \in 1..(i - 1) : l[j] # x
    IN  SubSeq(l, 1, k - 1) \o SubSeq(l, k + 1, Len(l))

\* the body of the try: what is invoked, what it raises, what is logged
notify_try(observer) ==
    IF observer.kind = "ExecutionOutputObserver"
    THEN [invoked |-> <<observer>>, raised |-> observer.raises, logged |-> <<>>]
    ELSE IF observer.kind = "callable"
    THEN [invoked |-> <<observer>>, raised |-> observer.raises, logged |-> <<>>]
    ELSE [invoked |-> <<>>, raised |-> NoneValue,
          logged |-> <<"unsupported_output_observer">>]

\* "except Exception" in place of "except BaseException"
notify_observer_except_exception(observer) ==
    LET t == notify_try(observer)
    IN  IF t.raised \in {"Exception"}
        THEN [invoked |-> t.invoked, escaped |-> NoneValue,
              logged |-> t.logged \o <<"state_observer_exception">>]
        ELSE [invoked |-> t.invoked, escaped |-> t.raised, logged |-> t.logged]

\* one iteration of the loop of _notify_output_observers: the try and its
\* "except BaseException", which catches whatever was raised and logs it
notify_observer(observer) ==
    LET t == notify_try(observer)
    IN  IF t.raised # NoneValue
        THEN [invoked |-> t.invoked, escaped |-> NoneValue,
              logged |-> t.logged \o <<"state_observer_exception">>]
        ELSE [invoked |-> t.invoked, escaped |-> NoneValue, logged |-> t.logged]

(***************************************************************************)
(* process.py: ProcessExecution.execute, stop and interrupt.  The child    *)
(* runs the target; its exit code is 0 when the target returns, 1 when    *)
(* it raises, and minus the signal number when a signal ends it.           *)
(***************************************************************************)
SIGTERM == 15

\* what the child may exit with; terminate() sends SIGTERM, which ends the
\* child unless it got to its own end first
ExitCodes(signalled) == IF signalled THEN {0, 1, 0 - SIGTERM} ELSE {0, 1}

ProcessExecution_is_async_true == TRUE

ProcessExecution_is_async == FALSE

\* is_async() of the instance's execution; an asynchronous execution is any
\* implementation of Execution that answers True
is_async(kind) ==
    IF kind = "ProcessExecution" THEN ProcessExecution_is_async ELSE TRUE

execute_spawns_unless_stopped(stopped_, interrupted_) == ~stopped_

\* line 30: whether execute() goes on to create and start the child
execute_spawns(stopped_, interrupted_) == ~stopped_ /\ ~interrupted_

execute_completed_nonnegative(exitcode) == exitcode >= 0

\* line 34: the joined child's exit code tells success
execute_completed(exitcode) == exitcode = 0

Return(exec_state) == [kind |-> "return", state |-> exec_state, error |-> NoneValue]

Raise(r) == [kind |-> "raise", state |-> NoneValue, error |-> r.error]

execute_after_no_interrupted_check(stopped_, interrupted_, exitcode) ==
    IF stopped_ THEN Return("STOPPED")
    ELSE Raise(ExecutionError_init(<<"Process returned non-zero code ", exitcode>>,
                                   "FAILED", NoneValue))

\* lines 36-40: what execute() reports when the child did not exit with 0 or
\* was not started; exitcode is str(self._process.exitcode)
execute_after(stopped_, interrupted_, exitcode) ==
    IF stopped_ THEN Return("STOPPED")
    ELSE IF interrupted_
    THEN Raise(ExecutionError_init("Process interrupted", "INTERRUPTED", NoneValue))
    ELSE Raise(ExecutionError_init(<<"Process returned non-zero code ", exitcode>>,
                                   "FAILED", NoneValue))

\* self._process.terminate(), by the state of the Process object: nothing to
\* signal once the child has exited, AttributeError before start()
terminate(p) ==
    IF p.st = "alive" THEN [process |-> [p EXCEPT !.signalled = TRUE], raised |-> NoneValue]
    ELSE IF p.st = "initial" THEN [process |-> p, raised |-> "AttributeError"]
    ELSE [process |-> p, raised |-> NoneValue]

(***************************************************************************)
(* process.py: the captured stdout of the child (_CapturingWriter), the    *)
(* bounded output queue, and the consumer loop _read_output.  A text is a  *)
(* sequence of characters.                                                 *)
(***************************************************************************)
Whitespace == {" ", "\n", "\t"}

\* the texts the child writes: print("a") writes "a" and then "\n"
Texts == {<<>>, <<"\n">>, <<"a">>, <<"a", "\n">>, <<" ", "b", " ">>}

RECURSIVE rstrip(_)
\* str.rstrip(): trailing whitespace goes, leading whitespace stays
rstrip(text) ==
    IF text = <<>> THEN <<>>
    ELSE IF text[Len(text)] \in Whitespace THEN rstrip(SubSeq(text, 1, Len(text) - 1))
    ELSE text

put_nowait_unbounded(queue, item) == [raised |-> NoneValue, queue |-> Append(queue, item)]

\* Queue(maxsize).put_nowait(item): Full is raised when maxsize items wait
put_nowait(queue, item) ==
    IF Len(queue) >= QueueMaxsize
    THEN [raised |-> "Full", queue |-> queue]
    ELSE [raised |-> NoneValue, queue |-> Append(queue, item)]

\* _CapturingWriter.write(text): the stripped text is put unless it is empty,
\* Full is swallowed, and the text goes to the original stdout either way
write(queue, text) ==
    LET text_s == rstrip(text)
        put == IF text_s # <<>> THEN put_nowait(queue, text_s)
               ELSE [raised |-> NoneValue, queue |-> queue]
    IN  [queue |-> put.queue, out |-> text, raised |-> NoneValue,
         put |-> text_s # <<>> /\ put.raised = NoneValue]

\* Queue.get() with its defaults block=True, timeout=None: it waits for an
\* item for as long as there is none, and Empty is never raised
queue_get(queue) ==
    IF queue = <<>> THEN [kind |-> "blocks", line |-> <<>>]
    ELSE [kind |-> "line", line |-> Head(queue)]

RECURSIVE notify_output_observers(_, _)
\* _notify_output_observers(output): the observers invoked by the loop that
\* starts at the i-th observer
notify_output_observers(observers, i) ==
    IF i > Len(observers) THEN <<>>
    ELSE LET r == notify_observer(observers[i])
         IN  IF r.escaped # NoneValue THEN r.invoked
             ELSE r.invoked \o notify_output_observers(observers, i + 1)

\* the observers registered where output is consumed
OutputObservers ==
    {[kind |-> "callable", raises |-> NoneValue],
     [kind |-> "ExecutionOutputObserver", raises |-> "Exception"]}

(***************************************************************************)
(* socket.py: SocketServer.  A datagram is a sequence of bytes, written as *)
(* one-character strings; a client address is None for an unbound client.  *)
(***************************************************************************)
Digits == {"0", "1", "4"}

\* the JSON document [[]], four bytes long
Document == <<"[", "[", "]", "]">>

\* the datagrams clients send: the empty one, the document on its own, the
\* document behind its length, and that cut in two at either place
Datagrams ==
    {<<>>, Document, <<"4">> \o Document,
     <<"4", "[", "[">>, <<"]", "]">>, <<"4">>}

Addresses == {NoneValue, "client"}

\* the addresses of two bound clients
Peers == {"client", "peer"}

RECURSIVE LeadingDigits(_)
\* group 1 of ^(\d+)(.*): the longest run of digits the datagram starts with
LeadingDigits(datagram) ==
    IF datagram # <<>> /\ Head(datagram) \in Digits
    THEN <<Head(datagram)>> \o LeadingDigits(Tail(datagram))
    ELSE <<>>

RECURSIVE UpToNewline(_)
\* what (.*) takes: the bytes before the first newline
UpToNewline(bytes) ==
    IF bytes = <<>> \/ Head(bytes) = "\n" THEN <<>>
    ELSE <<Head(bytes)>> \o UpToNewline(Tail(bytes))

\* prefixed_payload_regex.match(datagram): no match without a leading digit
prefixed_payload_regex(datagram) ==
    LET digits == LeadingDigits(datagram)
    IN  [match |-> digits # <<>>,
         group1 |-> digits,
         group2 |-> UpToNewline(SubSeq(datagram, Len(digits) + 1, Len(datagram)))]

\* payload_length = 0, an int
IntLength(n) == [type |-> "int", int |-> n, bytes |-> <<>>]

BytesLength(b) == [type |-> "bytes", int |-> 0, bytes |-> b]

\* the number a byte stands for as a decimal digit
DigitValue(byte) == CHOOSE n \in 0..9 : ToString(n) = byte

RECURSIVE DecimalValue(_)
\* the number a run of decimal digits reads as
DecimalValue(digits) ==
    IF digits = <<>> THEN 0
    ELSE 10 * DecimalValue(SubSeq(digits, 1, Len(digits) - 1))
         + DigitValue(digits[Len(digits)])

payload_length_as_int(group1) == IntLength(DecimalValue(group1))

\* payload_length = match.group(1): the digits as they came, bytes
payload_length(group1) == BytesLength(group1)

\* len(payload) < payload_length: an int is ordered against an int only
less_than(n, length) ==
    IF length.type = "int" THEN [raised |-> NoneValue, value |-> n < length.int]
    ELSE [raised |-> "TypeError", value |-> FALSE]

\* the condition of the while of _receive_full_datagram
receive_more(payload, length) ==
    IF payload = <<>> THEN [raised |-> NoneValue, value |-> TRUE]
    ELSE less_than(Len(payload), length)

\* json.loads(payload) of the payloads the datagrams can make up
json_loads(payload) ==
    IF payload = Document THEN [raised |-> NoneValue, value |-> <<<<>>>>]
    ELSE [raised |-> "JSONDecodeError", value |-> <<>>]

\* what handle() may return: None, {}, {"a": 1}, 0, 1
Responses ==
    {[type |-> "NoneType", n |-> 0],
     [type |-> "dict", n |-> 0], [type |-> "dict", n |-> 1],
     [type |-> "int", n |-> 0], [type |-> "int", n |-> 1]}

\* "if resp_body:", the truth value of the response: None, 0 and an empty
\* dict are false
truth(resp_body) == resp_body.type # "NoneType" /\ resp_body.n # 0

\* json.dumps(resp_body).encode()
json_dumps(resp_body) ==
    IF resp_body.type = "NoneType" THEN <<"n", "u", "l", "l">>
    ELSE IF resp_body.type = "int" THEN <<ToString(resp_body.n)>>
    ELSE IF resp_body.n = 0 THEN <<"{", "}">>
    ELSE <<"{", "\"", "a", "\"", ":", " ", "1", "}">>

\* a socket.socket(AF_UNIX, SOCK_DGRAM) as created: not bound, open
NewSocket == [bound |-> FALSE, shut |-> FALSE, closed |-> FALSE]

\* what start() meets outside the program: the socket directory cannot be
\* created, or the socket may not be bound there, or neither
StartEnv == {"ok", "FileNotFoundError", "PermissionError"}

start_refused_never(stopped_) == FALSE

\* start(), line 28: a stopped server is not started
start_refused(stopped_) == stopped_

\* self._server.bind(path): the address is in use when the file exists
bind(file, env) ==
    IF file # 0 THEN "OSError"
    ELSE IF env = "PermissionError" THEN "PermissionError"
    ELSE NoneValue

(***************************************************************************)
(* socket.py: SocketClient.  servers() is a generator that communicate()   *)
(* drives with next() and send(); the run of the two is computed here as   *)
(* the code runs it, statement by statement.                               *)
(***************************************************************************)
\* paths.socket_files(extension): the socket files found, in the order they
\* are found; the stem of a file is the instance id
SocketFiles == <<"a", "b", "c">>

\* two clients: the first is bidirectional, the second is not
Clients == {1, 2}

bidirectional(client) == client = 1

\* the requests given to communicate(): {"a": 1} and {}
Requests == {[type |-> "dict", n |-> 1], [type |-> "dict", n |-> 0]}

\* the include arguments given to communicate()
Includes == {{}, {"b"}, {"a", "c"}}

\* req_body = '_', the dummy the generator starts with
DummyRequest == [type |-> "str", n |-> 1]

\* the None that next() sends into the generator
NoneRequest == [type |-> "NoneType", n |-> 0]

\* resp = None
NoneResponse == [instance |-> NoneValue, response |-> NoneValue]

\* the sets of live servers that take a request and send nothing back:
\* their handle() returns nothing, or they exit once they have received it
Silences == {{}, {"b"}}

\* the response the server of a socket file produces, which tells its origin
ServerReply(api_file) == api_file

\* InstanceResponse(instance_id, json.loads(datagram.decode()))
InstanceResponse(instance_id, response) ==
    [instance |-> instance_id, response |-> response]

\* lines 124-126 and the for statement before its first file; inbox holds
\* the datagrams that wait on the client's socket, and blocked is set when
\* recv() waits for one that does not come
NewGenerator(dead) ==
    [i |-> 1, skip |-> FALSE, req_body |-> DummyRequest, resp |-> NoneResponse,
     dead_sockets |-> dead, sends |-> <<>>, inbox |-> <<>>, blocked |-> FALSE]

skipped_when_filtered(ctx, g, api_file) ==
    ctx.include # {} /\ api_file \notin ctx.include

\* line 129: the file is known dead, or include is given and lacks its id
skipped(ctx, g, api_file) ==
    \/ \E k \in 1..Len(g.dead_sockets) : g.dead_sockets[k] = api_file
    \/ (ctx.include # {} /\ api_file \notin ctx.include)

refused_without_skip(g, api_file) ==
    [g EXCEPT !.sends = Append(@, [file |-> api_file, datagram |-> json_dumps(g.req_body),
                                   refused |-> TRUE]),
              !.dead_sockets = Append(@, api_file)]

\* lines 138, 142-146: sendto() raises ConnectionRefusedError, the file is
\* remembered as dead and skip is set
refused(g, api_file) ==
    [g EXCEPT !.sends = Append(@, [file |-> api_file, datagram |-> json_dumps(g.req_body),
                                   refused |-> TRUE]),
              !.dead_sockets = Append(@, api_file),
              !.skip = TRUE]

\* lines 138-141: the request is sent; the server answers to a bound client
\* unless it stays silent; a bidirectional client then takes the next
\* datagram from its socket, or waits when there is none
answered(ctx, g, api_file) ==
    LET arrived == IF ctx.bidirectional /\ api_file \notin ctx.silent
                   THEN Append(g.inbox, ServerReply(api_file))
                   ELSE g.inbox
        sent_ == [g EXCEPT !.sends = Append(@, [file |-> api_file,
                                                datagram |-> json_dumps(g.req_body),
                                                refused |-> FALSE]),
                           !.inbox = arrived]
    IN  IF ~ctx.bidirectional THEN sent_
        ELSE IF arrived = <<>> THEN [sent_ EXCEPT !.blocked = TRUE]
        ELSE [sent_ EXCEPT !.resp = InstanceResponse(api_file, Head(arrived)),
                           !.inbox = Tail(arrived)]

RECURSIVE servers_for(_, _), servers_while(_, _), servers_body(_, _)
\* the for statement takes the file at g.i, or the generator is exhausted
servers_for(ctx, g) ==
    IF g.i > Len(SocketFiles) THEN [g |-> g, stop |-> TRUE]
    ELSE IF skipped(ctx, g, SocketFiles[g.i])
    THEN servers_for(ctx, [g EXCEPT !.i = @ + 1])
    ELSE servers_while(ctx, g)

\* top of "while True": yield resp unless skip is set; a generator that
\* waits in recv() goes no further
servers_while(ctx, g) ==
    IF g.blocked \/ ~g.skip THEN [g |-> g, stop |-> FALSE]
    ELSE servers_body(ctx, [g EXCEPT !.skip = FALSE])

\* lines 135-146, with req_body as it is
servers_body(ctx, g) ==
    IF ~truth(g.req_body) THEN servers_for(ctx, [g EXCEPT !.i = @ + 1])
    ELSE IF SocketFiles[g.i] \in ctx.alive
    THEN servers_while(ctx, answered(ctx, g, SocketFiles[g.i]))
    ELSE servers_for(ctx, [refused(g, SocketFiles[g.i]) EXCEPT !.i = @ + 1])

\* the generator suspended at the yield is resumed with a value
servers_send(ctx, g, value) ==
    servers_body(ctx, [g EXCEPT !.req_body = value, !.skip = FALSE])

RECURSIVE communicate_loop(_, _, _, _, _)
\* the while of communicate(): next(server), then server.send(req), whose
\* value is appended; StopIteration from either ends it
communicate_loop(ctx, g, req, responses, started) ==
    LET n == IF started THEN servers_send(ctx, g, NoneRequest) ELSE servers_for(ctx, g)
    IN  IF n.stop \/ n.g.blocked THEN [g |-> n.g, responses |-> responses]
        ELSE LET r == servers_send(ctx, n.g, req)
             IN  IF r.stop \/ r.g.blocked THEN [g |-> r.g, responses |-> responses]
                 ELSE communicate_loop(ctx, r.g, req, Append(responses, r.g.resp), TRUE)

\* communicate(req, include) of a client whose dead_sockets is dead, with the
\* servers of the files in alive_ receiving and those in silent not answering
communicate(client, dead, alive_, silent, req, include) ==
    communicate_loop([include |-> include, alive |-> alive_, silent |-> silent,
                      bidirectional |-> bidirectional(client)],
                     NewGenerator(dead), req, <<>>, FALSE)

(***************************************************************************)
(* plugin.py                                                               *)
(***************************************************************************)
\* the prefix given to discover_plugins
Prefix == "taro_"

\* module names, as the prefix and the rest of the name
ModuleNames == {<<"taro_", "a">>, <<"taro_", "b">>, <<"other_", "c">>}

\* name.startswith(prefix)
startswith(name, prefix) == name[1] = prefix

\* what a module on the import path can be: its import raises; it has no
\* create_execution_listener; the factory returns None; the listener has no
\* state_update; state_update is not callable; it takes two, no, or one
\* parameter
Modules ==
    {[imports |-> FALSE, factory |-> FALSE, listener |-> NoneValue,
      state_update |-> "missing", parameters |-> 0],
     [imports |-> TRUE, factory |-> FALSE, listener |-> NoneValue,
      state_update |-> "missing", parameters |-> 0],
     [imports |-> TRUE, factory |-> TRUE, listener |-> NoneValue,
      state_update |-> "missing", parameters |-> 0],
     [imports |-> TRUE, factory |-> TRUE, listener |-> "listener",
      state_update |-> "missing", parameters |-> 0],
     [imports |-> TRUE, factory |-> TRUE, listener |-> "listener",
      state_update |-> "value", parameters |-> 0],
     [imports |-> TRUE, factory |-> TRUE, listener |-> "listener",
      state_update |-> "callable", parameters |-> 2],
     [imports |-> TRUE, factory |-> TRUE, listener |-> "listener",
      state_update |-> "callable", parameters |-> 0],
     [imports |-> TRUE, factory |-> TRUE, listener |-> "listener",
      state_update |-> "callable", parameters |-> 1]}

\* the names lists given to discover_plugins
NamesLists ==
    {<<>>,
     <<<<"taro_", "a">>, <<"taro_", "b">>>>,
     <<<<"taro_", "b">>, <<"other_", "c">>, <<"taro_", "a">>>>}

\* load_plugin(plugin_module): the listener, or the exception raised
load_plugin(plugin_module) ==
    IF ~plugin_module.factory THEN [raised |-> "AttributeError", ret |-> NoneValue]
    ELSE IF plugin_module.listener = NoneValue THEN [raised |-> "ValueError", ret |-> NoneValue]
    ELSE IF plugin_module.state_update = "missing" THEN [raised |-> "AttributeError", ret |-> NoneValue]
    ELSE IF plugin_module.state_update # "callable" THEN [raised |-> "AttributeError", ret |-> NoneValue]
    ELSE IF plugin_module.parameters # 1 THEN [raised |-> "AttributeError", ret |-> NoneValue]
    ELSE [raised |-> NoneValue, ret |-> plugin_module.listener]

\* importlib.import_module(name) followed by load_plugin(module)
import_and_load(installed, name) ==
    IF ~installed[name].imports THEN [raised |-> "ImportError", ret |-> NoneValue]
    ELSE load_plugin(installed[name])

caught_and_raised(acc, outcome) == [acc EXCEPT !.raised = outcome.raised]

\* except BaseException: the failure is logged
caught(acc, outcome) == acc

RECURSIVE discover_plugins_from(_, _, _, _, _)
\* the for loop of discover_plugins from the i-th name on
discover_plugins_from(installed, prefix, names, i, acc) ==
    IF i > Len(names) \/ acc.raised # NoneValue THEN acc
    ELSE IF ~(names[i] \in DOMAIN installed /\ startswith(names[i], prefix))
    THEN discover_plugins_from(installed, prefix, names, i + 1, acc)
    ELSE LET outcome == import_and_load(installed, names[i])
         IN  discover_plugins_from(installed, prefix, names, i + 1,
                 IF outcome.raised # NoneValue THEN caught(acc, outcome)
                 ELSE [acc EXCEPT !.name2listener = (names[i] :> outcome.ret) @@ @])

\* discover_plugins(prefix, names) with the modules installed on the path
discover_plugins(installed, prefix, names) ==
    discover_plugins_from(installed, prefix, names, 1,
                          [raised |-> NoneValue, name2listener |-> <<>>])

(***************************************************************************)
(* jobs/track.py: Progress and MutableTrackedTask.  Python values are      *)
(* records of their type and number, so that None, 0 and False differ.     *)
(***************************************************************************)
\* the values of completed and total: None and the integers 0..MaxTotal
ProgressValues ==
    {[type |-> "NoneType", n |-> 0]} \cup {[type |-> "int", n |-> k] : k \in 0..MaxTotal}

\* Progress.pct_done: the quotient completed/total as numerator n and
\* denominator d, None, or the exception the division raises
pct_done(p) ==
    IF p.completed.type \in {"int", "float"} /\ p.total.type \in {"int", "float"}
    THEN IF p.total.n = 0
         THEN [raised |-> "ZeroDivisionError", type |-> "NoneType", n |-> 0, d |-> 1]
         ELSE [raised |-> NoneValue, type |-> "float", n |-> p.completed.n, d |-> p.total.n]
    ELSE [raised |-> NoneValue, type |-> "NoneType", n |-> 0, d |-> 1]

\* Progress.is_finished: "completed and total and (completed == total)" gives
\* the first falsy operand, or the comparison's bool
is_finished(p) ==
    IF ~truth(p.completed) THEN p.completed
    ELSE IF ~truth(p.total) THEN p.total
    ELSE [type |-> "bool", n |-> IF p.completed = p.total THEN 1 ELSE 0]

\* the names given to add_event
EventNames == {"e1", "e2"}

deque_append_unbounded(deque, maxlen, item) == Append(deque, item)

\* deque(maxlen=max_events).append(item): the oldest goes when it is full
deque_append(deque, maxlen, item) ==
    IF maxlen = 0 THEN deque
    ELSE IF Len(deque) >= maxlen THEN Append(Tail(deque), item)
    ELSE Append(deque, item)

\* TrackedTask.events: list(self._events)
events(t) == t._events

\* TrackedTask.last_event: None without events, which is the pair of Nones
\* here, else the last one
last_event(t) ==
    IF t._events = <<>> THEN <<NoneValue, NoneValue>>
    ELSE t._events[Len(t._events)]

(***************************************************************************)
(* jobs/track.py: the snapshots ProgressInfo, OperationInfo and            *)
(* TrackedTaskInfo, their to_dict and from_dict.  to_dict gives the dict,  *)
(* or the exception raised while it is built.                              *)
(***************************************************************************)
\* datetimes, and None where a timestamp is not set
Datetimes == {"t1", "t2"}

\* util.format_dt_iso(dt): None stays None, a datetime becomes its ISO text
format_dt_iso(dt) ==
    IF dt = NoneValue THEN NoneValue
    ELSE IF dt = "t1" THEN "2020-01-01T00:00:01" ELSE "2020-01-01T00:00:02"

\* util.parse_datetime(str): None stays None, else the datetime of the text
parse_datetime(str) ==
    IF str = NoneValue THEN NoneValue
    ELSE CHOOSE dt \in Datetimes : format_dt_iso(dt) = str

\* Progress.to_dict
Progress_to_dict(p) ==
    LET pct == pct_done(p)
    IN  IF pct.raised # NoneValue THEN [raised |-> pct.raised, dict |-> <<>>]
        ELSE [raised |-> NoneValue,
              dict |-> [completed |-> p.completed, total |-> p.total, unit |-> p.unit,
                        last_updated_at |-> format_dt_iso(p.last_updated_at),
                        pct_done |-> pct, is_finished |-> is_finished(p)]]

\* ProgressInfo.from_dict
ProgressInfo_from_dict(data) ==
    [completed |-> data.completed, total |-> data.total, unit |-> data.unit,
     last_updated_at |-> parse_datetime(data.last_updated_at)]

\* Operation.to_dict
Operation_to_dict(op) ==
    LET progress_ == Progress_to_dict(op.progress)
    IN  IF progress_.raised # NoneValue THEN progress_
        ELSE [raised |-> NoneValue,
              dict |-> [name |-> op.name, progress |-> progress_.dict,
                        started_at |-> format_dt_iso(op.started_at),
                        ended_at |-> format_dt_iso(op.ended_at)]]

\* OperationInfo.from_dict; the progress dict has keys, so it is truthy
OperationInfo_from_dict(data) ==
    [name |-> data.name, progress |-> ProgressInfo_from_dict(data.progress),
     started_at |-> parse_datetime(data.started_at),
     ended_at |-> parse_datetime(data.ended_at)]

RECURSIVE TrackedTask_to_dict(_)
\* TrackedTask.to_dict: the first exception met in the operations or in the
\* subtasks leaves it
TrackedTask_to_dict(t) ==
    LET ops == [k \in 1..Len(t.operations) |-> Operation_to_dict(t.operations[k])]
        subs == [k \in 1..Len(t.subtasks) |-> TrackedTask_to_dict(t.subtasks[k])]
        failed == {k \in 1..Len(ops) : ops[k].raised # NoneValue}
        failed_subs == {k \in 1..Len(subs) : subs[k].raised # NoneValue}
    IN  IF failed # {} THEN ops[CHOOSE k \in failed : \A j \in failed : k <= j]
        ELSE IF failed_subs # {}
        THEN subs[CHOOSE k \in failed_subs : \A j \in failed_subs : k <= j]
        ELSE [raised |-> NoneValue,
              dict |-> [name |-> t.name,
                        events |-> [k \in 1..Len(t.events) |->
                                      <<t.events[k][1], format_dt_iso(t.events[k][2])>>],
                        operations |-> [k \in 1..Len(ops) |-> ops[k].dict],
                        subtasks |-> [k \in 1..Len(subs) |-> subs[k].dict],
                        started_at |-> format_dt_iso(t.started_at),
                        ended_at |-> format_dt_iso(t.ended_at)]]

RECURSIVE TrackedTaskInfo_from_dict(_)
\* TrackedTaskInfo.from_dict
TrackedTaskInfo_from_dict(data) ==
    [name |-> data.name,
     events |-> [k \in 1..Len(data.events) |->
                   <<data.events[k][1], parse_datetime(data.events[k][2])>>],
     operations |-> [k \in 1..Len(data.operations) |->
                       OperationInfo_from_dict(data.operations[k])],
     subtasks |-> [k \in 1..Len(data.subtasks) |->
                     TrackedTaskInfo_from_dict(data.subtasks[k])],
     started_at |-> parse_datetime(data.started_at),
     ended_at |-> parse_datetime(data.ended_at)]

\* task snapshots: a task with events, two operations and a subtask that has
\* an event of its own; completed, total, unit and the timestamp vary
Snapshots ==
    {[name |-> "task",
      events |-> evs,
      operations |->
         <<[name |-> "op1",
            progress |-> [completed |-> completed, total |-> total, unit |-> unit,
                          last_updated_at |-> dt],
            started_at |-> dt, ended_at |-> NoneValue],
           [name |-> "op2",
            progress |-> [completed |-> [type |-> "int", n |-> 1],
                          total |-> [type |-> "NoneType", n |-> 0], unit |-> "",
                          last_updated_at |-> NoneValue],
            started_at |-> "t1", ended_at |-> dt]>>,
      subtasks |-> <<[name |-> "sub", events |-> <<<<"e2", dt>>>>, operations |-> <<>>,
                      subtasks |-> <<>>, started_at |-> NoneValue, ended_at |-> dt]>>,
      started_at |-> dt,
      ended_at |-> NoneValue] :
        completed \in ProgressValues, total \in ProgressValues, unit \in {"", "files"},
        dt \in Datetimes \cup {NoneValue},
        evs \in {<<>>, <<<<"e1", "t1">>, <<"e2", NoneValue>>>>}}

(***************************************************************************)
(* The program's state.                                                    *)
(***************************************************************************)
VARIABLES
    heap,       \* the OrderedDict objects, by reference (position)
    lifecycle,  \* the live ExecutionLifecycleManagement: its _state_changes reference
    infos,      \* the JobInfo snapshots created: _lifecycle's _state_changes reference
    now,        \* datetime.now(utc) as the clock shows it
    calls,      \* set_state calls made so far
    last,       \* the last call: operation, argument, return value, ledger before
    errors,     \* the ExecutionError objects that exist
    lastError,  \* the last ExecutionError construction: arguments, exception, errors before
    output_observers,  \* ProcessExecution._output_observers
    notify,     \* the last _notify_output_observers call: idle (none, or other calls
                \* came after it), in its loop, returned or raised; its output; its
                \* loop position
    delivered,  \* the observers that call invoked, in order
    logged,     \* the events that call logged
    lines,      \* output lines notified so far
    lastReg,    \* the last add_/remove_output_observer call: its argument, the list before
    execution,  \* the kind of the instance's execution, once the instance is created
    stopped,    \* ProcessExecution._stopped
    interrupted,  \* ProcessExecution._interrupted
    process,    \* ProcessExecution._process: None, or the Process and its child
    exec,       \* the execute() call: where it is, what it met, what it reported
    ctl,        \* the stop() or interrupt() call of another thread
    seen,       \* what has happened so far: calls made, and when
    signals,    \* stop() and interrupt() calls made so far
    output_queue,  \* ProcessExecution.output_queue: the lines put and not yet got
    writer,     \* the child's captured stdout: whether it is open, its last write()
    accepted,   \* the lines put in the queue so far
    reader,     \* the thread in _read_output, and _status
    received,   \* the lines got so far, each with the observers invoked with it
    server,     \* the SocketServer: _stopped, and where serve() and its receive are
    inbox,      \* the datagrams sent to the server's socket and not yet received
    wire,       \* all datagrams sent to the server's socket so far
    handled,    \* the handle() calls made: request, response, what was sent for it
    sent,       \* the datagrams the server sent, each with its destination
    sockets,    \* the sockets the server has created, in order: bound, shut down, closed
    socket_file,  \* the socket file: 0 if there is none, else the socket bound to it
    loops,      \* the serve threads started so far
    lastSrv,    \* the last start() or close() call: its outcome, the state before it
    srv_calls,  \* start() and close() calls made so far
    alive,      \* the socket files whose server still receives
    dead_sockets,  \* SocketClient.dead_sockets of each client
    lastComm,   \* the last communicate() call: arguments, state before, sends, result
    comms,      \* communicate() calls made so far
    modules,    \* the modules that can be imported, by name
    installs,   \* modules put on the import path so far
    lastDiscover,  \* the last discover_plugins call: names, modules, outcome
    progress,   \* a ProgressInfo: completed and total
    readout,    \* the progress last read, with its pct_done and is_finished
    task,       \* a MutableTrackedTask: max_events and _events
    added,      \* every event given to the task's add_event, in order
    roundtrip   \* the last snapshot turned into a dict and back, and the outcome

ledgerVars == <<heap, lifecycle, infos, now, calls, last>>

errorVars == <<errors, lastError>>

observerVars == <<output_observers, notify, delivered, logged, lines, lastReg>>

processVars == <<execution, stopped, interrupted, process, exec, ctl, seen, signals>>

outputVars == <<output_queue, writer, accepted, reader, received>>

serverVars ==
    <<server, inbox, wire, handled, sent, sockets, socket_file, loops, lastSrv, srv_calls>>

clientVars == <<alive, dead_sockets, lastComm, comms>>

pluginVars == <<modules, installs, lastDiscover>>

trackVars == <<progress, readout, task, added, roundtrip>>

vars == <<heap, lifecycle, infos, now, calls, last, errors, lastError,
          output_observers, notify, delivered, logged, lines, lastReg,
          execution, stopped, interrupted, process, exec, ctl, seen, signals,
          output_queue, writer, accepted, reader, received,
          server, inbox, wire, handled, sent,
          sockets, socket_file, loops, lastSrv, srv_calls,
          alive, dead_sockets, lastComm, comms, modules, installs,
          lastDiscover, progress, readout, task, added, roundtrip>>

\* the arguments given to set_state: the sentinel, an absent value, and
\* members of every group that the ledger's queries read (two of EXECUTING)
Inputs ==
    {NoneValue, "NONE", "CREATED", "STARTED", "RUNNING", "COMPLETED", "FAILED"}

NoCall == [op |-> "none", arg |-> NoneValue, ret |-> FALSE, pre |-> <<>>, at |-> 0]

NoError == [op |-> "none", exec_state |-> NoneValue, raised |-> NoneValue, pre |-> {}]

NoReg == [op |-> "none", observer |-> NoneValue, pre |-> <<>>]

\* no _notify_output_observers call is under way or was the last call made
Idle == [pc |-> "idle", output |-> 0, i |-> 0]

\* SocketServer.__init__, and the locals of _receive_full_datagram
\* _server and on are 0 for no socket, else the place of a socket in sockets;
\* parts are the datagrams received so far by the running call of
\* _receive_full_datagram, and stopped_at is how many datagrams had been sent
\* to the server when stop() was called
NewServer ==
    [pc |-> "new", stopped |-> FALSE, raised |-> NoneValue,
     payload |-> <<>>, payload_length |-> IntLength(0), client_address |-> NoneValue,
     _server |-> 0, on |-> 0, parts |-> <<>>, stopped_at |-> 0]

\* discover_plugins has not been called
NoDiscover ==
    [op |-> "none", names |-> <<>>, pre |-> <<>>, raised |-> NoneValue,
     name2listener |-> <<>>]

\* communicate() has not been called
NoComm ==
    [op |-> "none", client |-> 0, req |-> NoneRequest, include |-> {}, alive |-> {},
     silent |-> {}, pre |-> [client \in Clients |-> <<>>], sends |-> <<>>,
     responses |-> <<>>, returned |-> FALSE]

\* neither start() nor close() has been called
NoSrvCall ==
    [op |-> "none", ret |-> NoneValue, raised |-> NoneValue,
     pre |-> [stopped |-> FALSE, _server |-> 0, sockets |-> <<>>, socket_file |-> 0,
              loops |-> 0]]

\* write() has not been called
NoWrite == [op |-> "none", text |-> <<>>, pre |-> <<>>, post |-> <<>>, out |-> <<>>,
            put |-> FALSE]

\* self._process = None
NoProcess == [st |-> "None", exitcode |-> NoneValue, signalled |-> FALSE]

\* execute() has not been called
NotExecuted ==
    [pc |-> "idle", entered |-> NoneValue, entry |-> <<FALSE, FALSE>>, spawned |-> FALSE,
     outcome |-> NoneValue]

\* no stop() or interrupt() call is under way or was made
NoCtl == [pc |-> "idle", op |-> "none", at |-> "idle", raised |-> NoneValue,
          pre |-> <<FALSE, FALSE, NoProcess>>, st |-> "None"]

\* the live ledger's entries
Ledger == heap[lifecycle]

Init ==
    /\ heap = << <<>> >>
    /\ lifecycle = 1
    /\ infos = <<>>
    /\ now = 0
    /\ calls = 0
    /\ last = NoCall
    /\ errors = {}
    /\ lastError = NoError
    /\ output_observers = <<>>
    /\ notify = Idle
    /\ delivered = <<>>
    /\ logged = <<>>
    /\ lines = 0
    /\ lastReg = NoReg
    /\ execution = NoneValue
    /\ stopped = FALSE
    /\ interrupted = FALSE
    /\ process = NoProcess
    /\ exec = NotExecuted
    /\ ctl = NoCtl
    /\ seen = [stop |-> FALSE, interrupt |-> FALSE, interrupt_in_join |-> FALSE]
    /\ signals = 0
    /\ output_queue = <<>>
    /\ writer = [pc |-> "running", written |-> 0, last |-> NoWrite]
    /\ accepted = <<>>
    /\ reader = [pc |-> "idle", status |-> NoneValue]
    /\ received = <<>>
    /\ server = NewServer
    /\ inbox = <<>>
    /\ wire = <<>>
    /\ handled = <<>>
    /\ sent = <<>>
    /\ sockets = <<>>
    /\ socket_file = 0
    /\ loops = 0
    /\ lastSrv = NoSrvCall
    /\ srv_calls = 0
    /\ alive = {SocketFiles[k] : k \in 1..Len(SocketFiles)}
    /\ dead_sockets = [client \in Clients |-> <<>>]
    /\ lastComm = NoComm
    /\ comms = 0
    /\ modules = <<>>
    /\ installs = 0
    /\ lastDiscover = NoDiscover
    /\ progress = [completed |-> [type |-> "NoneType", n |-> 0],
                   total |-> [type |-> "NoneType", n |-> 0]]
    /\ readout = [op |-> "none", of |-> progress,
                  pct_done |-> pct_done(progress), is_finished |-> is_finished(progress)]
    /\ task = [max_events |-> MaxCapacity, _events |-> <<>>]
    /\ added = <<>>
    /\ roundtrip = [op |-> "none"]

\* time passes
Tick ==
    /\ now < MaxClock
    /\ now' = now + 1
    /\ UNCHANGED <<heap, lifecycle, infos, calls, last>>
    /\ UNCHANGED <<errorVars, observerVars, processVars, outputVars, serverVars,
                 clientVars, pluginVars, trackVars>>

\* lifecycle.set_state(new_state) on the live instance
SetState(new_state) ==
    /\ calls < MaxCalls
    /\ LET r == set_state(Ledger, new_state, now)
       IN  /\ heap' = [heap EXCEPT ![lifecycle] = r.changes]
           /\ last' = [op |-> "set_state", arg |-> new_state, ret |-> r.ret,
                       pre |-> Ledger, at |-> now]
    /\ calls' = calls + 1
    /\ UNCHANGED <<lifecycle, infos, now>>
    /\ UNCHANGED <<errorVars, observerVars, processVars, outputVars, serverVars,
                 clientVars, pluginVars, trackVars>>

\* JobInfo(..., copy.copy(lifecycle), ...): __copy__ gives the new
\* ExecutionLifecycle the same _state_changes object
CreateInfoCopy ==
    /\ Len(infos) < MaxInfos
    /\ infos' = Append(infos, [state_changes |-> lifecycle, how |-> "copy",
                               taken |-> Ledger])
    /\ last' = [NoCall EXCEPT !.op = "copy"]
    /\ UNCHANGED <<heap, lifecycle, now, calls>>
    /\ UNCHANGED <<errorVars, observerVars, processVars, outputVars, serverVars,
                 clientVars, pluginVars, trackVars>>

\* JobInfo(..., copy.deepcopy(lifecycle), ...): __deepcopy__ builds a new
\* ExecutionLifecycle from state_changes(), with an OrderedDict of its own
CreateInfoDeepCopy ==
    /\ Len(infos) < MaxInfos
    /\ heap' = Append(heap, OrderedDictOf(state_changes(Ledger), <<>>))
    /\ infos' = Append(infos, [state_changes |-> Len(heap) + 1, how |-> "deepcopy",
                               taken |-> Ledger])
    /\ last' = [NoCall EXCEPT !.op = "deepcopy"]
    /\ UNCHANGED <<lifecycle, now, calls>>
    /\ UNCHANGED <<errorVars, observerVars, processVars, outputVars, serverVars,
                 clientVars, pluginVars, trackVars>>

\* ExecutionError(message, exec_state, unexpected_error=...)
NewExecutionError(message, exec_state, unexpected_error) ==
    /\ Cardinality(errors) < MaxErrors
    /\ LET r == ExecutionError_init(message, exec_state, unexpected_error)
       IN  /\ errors' = IF r.raised = NoneValue THEN errors \cup {r.error} ELSE errors
           /\ lastError' = [op |-> "init", exec_state |-> exec_state,
                            raised |-> r.raised, pre |-> errors]
    /\ UNCHANGED <<ledgerVars, observerVars, processVars, outputVars, serverVars,
                 clientVars, pluginVars, trackVars>>

\* ExecutionError.from_unexpected_error(e)
FromUnexpectedError(e) ==
    /\ Cardinality(errors) < MaxErrors
    /\ LET r == from_unexpected_error(e)
       IN  /\ errors' = IF r.raised = NoneValue THEN errors \cup {r.error} ELSE errors
           /\ lastError' = [op |-> "from_unexpected_error", exec_state |-> "ERROR",
                            raised |-> r.raised, pre |-> errors]
    /\ UNCHANGED <<ledgerVars, observerVars, processVars, outputVars, serverVars,
                 clientVars, pluginVars, trackVars>>

\* add_output_observer(observer)
AddOutputObserver(observer) ==
    /\ notify.pc # "loop"
    /\ Len(output_observers) < MaxObservers
    /\ output_observers' = Append(output_observers, observer)
    /\ lastReg' = [op |-> "add", observer |-> observer, pre |-> output_observers]
    /\ notify' = Idle
    /\ delivered' = <<>>
    /\ logged' = <<>>
    /\ UNCHANGED lines
    /\ UNCHANGED <<ledgerVars, errorVars, processVars, outputVars, serverVars,
                 clientVars, pluginVars, trackVars>>

\* remove_output_observer(observer), of an observer that is registered
RemoveOutputObserver(observer) ==
    /\ notify.pc # "loop"
    /\ \E i \in 1..Len(output_observers) : output_observers[i] = observer
    /\ output_observers' = ListRemove(output_observers, observer)
    /\ lastReg' = [op |-> "remove", observer |-> observer, pre |-> output_observers]
    /\ notify' = Idle
    /\ delivered' = <<>>
    /\ logged' = <<>>
    /\ UNCHANGED lines
    /\ UNCHANGED <<ledgerVars, errorVars, processVars, outputVars, serverVars,
                 clientVars, pluginVars, trackVars>>

\* _notify_output_observers(output) is called with the next line
NotifyBegin ==
    /\ notify.pc # "loop"
    /\ lines < MaxOutputs
    /\ lines' = lines + 1
    /\ notify' = [pc |-> "loop", output |-> lines + 1, i |-> 1]
    /\ delivered' = <<>>
    /\ logged' = <<>>
    /\ UNCHANGED <<output_observers, lastReg>>
    /\ UNCHANGED <<ledgerVars, errorVars, processVars, outputVars, serverVars,
                 clientVars, pluginVars, trackVars>>

\* one iteration of its for loop; an exception that escapes ends the call
NotifyObserver ==
    /\ notify.pc = "loop"
    /\ notify.i <= Len(output_observers)
    /\ LET r == notify_observer(output_observers[notify.i])
       IN  /\ delivered' = delivered \o r.invoked
           /\ logged' = logged \o r.logged
           /\ notify' = IF r.escaped # NoneValue
                        THEN [notify EXCEPT !.pc = "raised"]
                        ELSE [notify EXCEPT !.i = notify.i + 1]
    /\ UNCHANGED <<output_observers, lines, lastReg>>
    /\ UNCHANGED <<ledgerVars, errorVars, processVars, outputVars, serverVars,
                 clientVars, pluginVars, trackVars>>

\* the loop is over and the call returns
NotifyReturn ==
    /\ notify.pc = "loop"
    /\ notify.i > Len(output_observers)
    /\ notify' = [notify EXCEPT !.pc = "returned"]
    /\ UNCHANGED <<output_observers, delivered, logged, lines, lastReg>>
    /\ UNCHANGED <<ledgerVars, errorVars, processVars, outputVars, serverVars,
                 clientVars, pluginVars, trackVars>>

\* a job instance is created around an execution: its ledger gets CREATED
RunnerCreate(kind) ==
    /\ execution = NoneValue
    /\ execution' = kind
    /\ heap' = [heap EXCEPT ![lifecycle] = set_state(Ledger, "CREATED", now).changes]
    /\ UNCHANGED <<lifecycle, infos, now, calls, last>>
    /\ UNCHANGED <<stopped, interrupted, process, exec, ctl, seen, signals>>
    /\ UNCHANGED <<errorVars, observerVars, outputVars, serverVars,
                 clientVars, pluginVars, trackVars>>

\* the instance is run: its state is set to RUNNING, or TRIGGERED for an
\* asynchronous execution, and then execute() is called
RunnerRun ==
    /\ execution # NoneValue
    /\ exec.pc = "idle"
    /\ LET changes == set_state(Ledger, IF is_async(execution) THEN "TRIGGERED"
                                        ELSE "RUNNING", now).changes
       IN  /\ heap' = [heap EXCEPT ![lifecycle] = changes]
           /\ exec' = [exec EXCEPT
                        !.pc = IF execution = "ProcessExecution" THEN "begin" ELSE "async",
                        !.entered = state(changes),
                        !.entry = <<stopped, interrupted>>]
    /\ UNCHANGED <<lifecycle, infos, now, calls, last>>
    /\ UNCHANGED <<execution, stopped, interrupted, process, ctl, seen, signals>>
    /\ UNCHANGED <<errorVars, observerVars, outputVars, serverVars,
                 clientVars, pluginVars, trackVars>>

\* execute(), line 30
ExecuteBegin ==
    /\ exec.pc = "begin"
    /\ exec' = [exec EXCEPT
                 !.pc = IF execute_spawns(stopped, interrupted) THEN "create" ELSE "after"]
    /\ UNCHANGED <<execution, stopped, interrupted, process, ctl, seen, signals>>
    /\ UNCHANGED <<ledgerVars, errorVars, observerVars, outputVars, serverVars,
                 clientVars, pluginVars, trackVars>>

\* execute(), line 31: self._process = Process(target=self._run)
ExecuteCreate ==
    /\ exec.pc = "create"
    /\ process' = [st |-> "initial", exitcode |-> NoneValue, signalled |-> FALSE]
    /\ exec' = [exec EXCEPT !.pc = "start", !.spawned = TRUE]
    /\ UNCHANGED <<execution, stopped, interrupted, ctl, seen, signals>>
    /\ UNCHANGED <<ledgerVars, errorVars, observerVars, outputVars, serverVars,
                 clientVars, pluginVars, trackVars>>

\* execute(), line 32: self._process.start()
ExecuteStart ==
    /\ exec.pc = "start"
    /\ process' = [process EXCEPT !.st = "alive"]
    /\ exec' = [exec EXCEPT !.pc = "join"]
    /\ UNCHANGED <<execution, stopped, interrupted, ctl, seen, signals>>
    /\ UNCHANGED <<ledgerVars, errorVars, observerVars, outputVars, serverVars,
                 clientVars, pluginVars, trackVars>>

\* the child exits, of itself or by the signal sent to it
ChildExit(exitcode) ==
    /\ process.st = "alive"
    /\ exitcode \in ExitCodes(process.signalled)
    /\ process' = [process EXCEPT !.st = "exited", !.exitcode = exitcode]
    /\ UNCHANGED <<execution, stopped, interrupted, exec, ctl, seen, signals>>
    /\ UNCHANGED <<ledgerVars, errorVars, observerVars, outputVars, serverVars,
                 clientVars, pluginVars, trackVars>>

\* execute(), lines 33-35: join() returns once the child has exited
ExecuteJoin ==
    /\ exec.pc = "join"
    /\ process.st = "exited"
    /\ exec' = IF execute_completed(process.exitcode)
               THEN [exec EXCEPT !.pc = "done", !.outcome = Return("COMPLETED")]
               ELSE [exec EXCEPT !.pc = "after"]
    /\ UNCHANGED <<execution, stopped, interrupted, process, ctl, seen, signals>>
    /\ UNCHANGED <<ledgerVars, errorVars, observerVars, outputVars, serverVars,
                 clientVars, pluginVars, trackVars>>

\* execute(), lines 36-40
ExecuteAfter ==
    /\ exec.pc = "after"
    /\ exec' = [exec EXCEPT !.pc = "done",
                            !.outcome = execute_after(stopped, interrupted, process.exitcode)]
    /\ UNCHANGED <<execution, stopped, interrupted, process, ctl, seen, signals>>
    /\ UNCHANGED <<ledgerVars, errorVars, observerVars, outputVars, serverVars,
                 clientVars, pluginVars, trackVars>>

\* stop(), line 63, called by another thread
StopCall ==
    /\ execution = "ProcessExecution"
    /\ ctl.pc = "idle"
    /\ signals < MaxSignals
    /\ signals' = signals + 1
    /\ stopped' = TRUE
    /\ ctl' = [pc |-> "terminate", op |-> "stop", at |-> exec.pc, raised |-> NoneValue,
               pre |-> <<stopped, interrupted, process>>, st |-> "None"]
    /\ seen' = [seen EXCEPT !.stop = TRUE]
    /\ UNCHANGED <<execution, interrupted, process, exec>>
    /\ UNCHANGED <<ledgerVars, errorVars, observerVars, outputVars, serverVars,
                 clientVars, pluginVars, trackVars>>

\* interrupt(), line 68, called by another thread
InterruptCall ==
    /\ execution = "ProcessExecution"
    /\ ctl.pc = "idle"
    /\ signals < MaxSignals
    /\ signals' = signals + 1
    /\ interrupted' = TRUE
    /\ ctl' = [pc |-> "terminate", op |-> "interrupt", at |-> exec.pc, raised |-> NoneValue,
               pre |-> <<stopped, interrupted, process>>, st |-> "None"]
    /\ seen' = [seen EXCEPT !.interrupt = TRUE,
                            !.interrupt_in_join =
                                @ \/ (exec.pc = "join" /\ process.st = "alive")]
    /\ UNCHANGED <<execution, stopped, process, exec>>
    /\ UNCHANGED <<ledgerVars, errorVars, observerVars, outputVars, serverVars,
                 clientVars, pluginVars, trackVars>>

\* stop() lines 64-65, interrupt() lines 69-70: if self._process, terminate();
\* st keeps what the child was when the call got here
CtlTerminate ==
    /\ ctl.pc = "terminate"
    /\ LET r == IF process.st = "None" THEN [process |-> process, raised |-> NoneValue]
                ELSE terminate(process)
       IN  /\ process' = r.process
           /\ ctl' = [ctl EXCEPT !.pc = "idle", !.raised = r.raised, !.st = process.st]
    /\ UNCHANGED <<execution, stopped, interrupted, exec, seen, signals>>
    /\ UNCHANGED <<ledgerVars, errorVars, observerVars, outputVars, serverVars,
                 clientVars, pluginVars, trackVars>>

\* the child writes text to its stdout: _CapturingWriter.write(text)
CaptureWrite(text) ==
    /\ writer.pc = "running"
    /\ writer.written < MaxWrites
    /\ LET w == write(output_queue, text)
       IN  /\ w.raised = NoneValue
           /\ output_queue' = w.queue
           /\ accepted' = IF w.put THEN Append(accepted, rstrip(text)) ELSE accepted
           /\ writer' = [writer EXCEPT
                          !.written = @ + 1,
                          !.last = [op |-> "write", text |-> text, pre |-> output_queue,
                                    post |-> w.queue, out |-> w.out, put |-> w.put]]
    /\ UNCHANGED <<reader, received>>
    /\ UNCHANGED <<ledgerVars, errorVars, observerVars, processVars, serverVars,
                 clientVars, pluginVars, trackVars>>

\* the child is over: _capture_stdout restores stdout and closes its queue end
CaptureEnd ==
    /\ writer.pc = "running"
    /\ writer' = [writer EXCEPT !.pc = "exited"]
    /\ UNCHANGED <<output_queue, accepted, reader, received>>
    /\ UNCHANGED <<ledgerVars, errorVars, observerVars, processVars, serverVars,
                 clientVars, pluginVars, trackVars>>

\* a thread of the parent enters _read_output
ReadStart ==
    /\ reader.pc = "idle"
    /\ reader' = [reader EXCEPT !.pc = "get"]
    /\ UNCHANGED <<output_queue, writer, accepted, received>>
    /\ UNCHANGED <<ledgerVars, errorVars, observerVars, processVars, serverVars,
                 clientVars, pluginVars, trackVars>>

\* one turn of the loop of _read_output: get a line, keep it as _status and
\* notify the observers; Empty would end the loop
ReadOutput ==
    /\ reader.pc = "get"
    /\ LET g == queue_get(output_queue)
       IN  /\ g.kind # "blocks"
           /\ IF g.kind = "Empty"
              THEN /\ reader' = [reader EXCEPT !.pc = "done"]
                   /\ UNCHANGED <<output_queue, received>>
              ELSE /\ output_queue' = Tail(output_queue)
                   /\ reader' = [reader EXCEPT !.status = g.line]
                   /\ received' = Append(received,
                                    [line |-> g.line,
                                     registered |-> output_observers,
                                     to |-> notify_output_observers(output_observers, 1)])
    /\ UNCHANGED <<writer, accepted>>
    /\ UNCHANGED <<ledgerVars, errorVars, observerVars, processVars, serverVars,
                 clientVars, pluginVars, trackVars>>

\* the state a start() or close() call finds
SrvPre ==
    [stopped |-> server.stopped, _server |-> server._server, sockets |-> sockets,
     socket_file |-> socket_file, loops |-> loops]

\* a client's sendto(datagram) from its address reaches the socket that is
\* bound to the socket file and open
ClientSend(datagram, address) ==
    /\ Len(wire) < MaxDatagrams
    /\ socket_file # 0
    /\ ~sockets[socket_file].closed
    /\ inbox' = Append(inbox, [datagram |-> datagram, address |-> address])
    /\ wire' = Append(wire, [datagram |-> datagram, address |-> address])
    /\ UNCHANGED <<server, handled, sent, sockets, socket_file, loops, lastSrv, srv_calls>>
    /\ UNCHANGED <<ledgerVars, errorVars, observerVars, processVars, outputVars,
                   clientVars, pluginVars, trackVars>>

\* start(): unless stopped, a socket is created and kept in _server, it is
\* bound to the socket path, and the thread that runs serve() is started
ServerStart(env) ==
    /\ srv_calls < MaxServerCalls
    /\ srv_calls' = srv_calls + 1
    /\ LET new == Len(sockets) + 1
           bound == bind(socket_file, env)
       IN  IF start_refused(server.stopped) \/ env = "FileNotFoundError"
           THEN /\ lastSrv' = [op |-> "start", ret |-> "False", raised |-> NoneValue,
                               pre |-> SrvPre]
                /\ UNCHANGED <<server, sockets, socket_file, loops>>
           ELSE IF bound # NoneValue
           THEN /\ sockets' = Append(sockets, NewSocket)
                /\ server' = [server EXCEPT !._server = new]
                /\ lastSrv' = [op |-> "start",
                               ret |-> IF bound = "PermissionError" THEN "False"
                                       ELSE NoneValue,
                               raised |-> IF bound = "PermissionError" THEN NoneValue
                                          ELSE bound,
                               pre |-> SrvPre]
                /\ UNCHANGED <<socket_file, loops>>
           ELSE /\ sockets' = Append(sockets, [NewSocket EXCEPT !.bound = TRUE])
                /\ socket_file' = new
                /\ loops' = loops + 1
                /\ server' = [server EXCEPT !._server = new, !.pc = "while"]
                /\ lastSrv' = [op |-> "start", ret |-> "True", raised |-> NoneValue,
                               pre |-> SrvPre]
    /\ UNCHANGED <<inbox, wire, handled, sent>>
    /\ UNCHANGED <<ledgerVars, errorVars, observerVars, processVars, outputVars,
                   clientVars, pluginVars, trackVars>>

\* stop(), called by another thread
ServerStop ==
    /\ ~server.stopped
    /\ server' = [server EXCEPT !.stopped = TRUE, !.stopped_at = Len(wire)]
    /\ UNCHANGED <<inbox, wire, handled, sent, sockets, socket_file, loops, lastSrv,
                   srv_calls>>
    /\ UNCHANGED <<ledgerVars, errorVars, observerVars, processVars, outputVars,
                   clientVars, pluginVars, trackVars>>

\* close(): stop(), and if there is a socket in _server it is shut down for
\* reads and closed, and the file of the name it is bound to is removed
ServerClose ==
    /\ srv_calls < MaxServerCalls
    /\ srv_calls' = srv_calls + 1
    /\ LET s == server._server
       IN  IF s = 0
           THEN /\ server' = [server EXCEPT !.stopped = TRUE,
                                          !.stopped_at = IF server.stopped THEN @
                                                         ELSE Len(wire)]
                /\ lastSrv' = [op |-> "close", ret |-> NoneValue, raised |-> NoneValue,
                               pre |-> SrvPre]
                /\ UNCHANGED <<sockets, socket_file>>
           ELSE IF sockets[s].closed
           THEN /\ server' = [server EXCEPT !.stopped = TRUE,
                                          !.stopped_at = IF server.stopped THEN @
                                                         ELSE Len(wire)]
                /\ lastSrv' = [op |-> "close", ret |-> NoneValue, raised |-> "OSError",
                               pre |-> SrvPre]
                /\ UNCHANGED <<sockets, socket_file>>
           ELSE /\ server' = [server EXCEPT !.stopped = TRUE,
                                          !.stopped_at = IF server.stopped THEN @
                                                         ELSE Len(wire)]
                /\ sockets' = [sockets EXCEPT ![s].shut = TRUE, ![s].closed = TRUE]
                /\ socket_file' = IF sockets[s].bound THEN 0 ELSE socket_file
                /\ lastSrv' = [op |-> "close", ret |-> NoneValue, raised |-> NoneValue,
                               pre |-> SrvPre]
    /\ UNCHANGED <<inbox, wire, handled, sent, loops>>
    /\ UNCHANGED <<ledgerVars, errorVars, observerVars, processVars, outputVars,
                   clientVars, pluginVars, trackVars>>

\* serve(), line 47, and the first lines of _receive_full_datagram
ServeWhile ==
    /\ server.pc = "while"
    /\ server' = IF server.stopped
                 THEN [server EXCEPT !.pc = "ended"]
                 ELSE [server EXCEPT !.pc = "recvfrom", !.payload = <<>>,
                                     !.payload_length = IntLength(0),
                                     !.client_address = NoneValue,
                                     !.on = server._server, !.parts = <<>>]
    /\ UNCHANGED <<inbox, wire, handled, sent, sockets, socket_file, loops, lastSrv,
                   srv_calls>>
    /\ UNCHANGED <<ledgerVars, errorVars, observerVars, processVars, outputVars,
                 clientVars, pluginVars, trackVars>>

\* one turn of the while of _receive_full_datagram: recvfrom() hands over the
\* next datagram, the payload is built up, and the condition is tested again
ReceiveDatagram ==
    /\ server.pc = "recvfrom"
    /\ sockets[server.on].shut \/ (inbox # <<>> /\ socket_file = server.on)
    /\ inbox' = IF sockets[server.on].shut THEN inbox ELSE Tail(inbox)
    /\ LET datagram == IF sockets[server.on].shut THEN <<>> ELSE Head(inbox).datagram
           m == prefixed_payload_regex(datagram)
           payload == IF m.match THEN m.group2 ELSE server.payload \o datagram
           length == IF m.match THEN payload_length(m.group1) ELSE server.payload_length
           more == receive_more(payload, length)
       IN  server' =
             IF datagram = <<>>
             THEN [server EXCEPT !.pc = "ended", !.payload = <<>>,
                                 !.client_address = NoneValue,
                                 !.parts = Append(@, [datagram |-> datagram,
                                                      address |-> NoneValue])]
             ELSE [server EXCEPT
                     !.parts = Append(@, Head(inbox)),
                     !.payload = payload,
                     !.payload_length = length,
                     !.client_address = Head(inbox).address,
                     !.raised = more.raised,
                     !.pc = IF more.raised # NoneValue THEN "crashed"
                            ELSE IF more.value THEN "recvfrom" ELSE "handle"]
    /\ UNCHANGED <<wire, handled, sent, sockets, socket_file, loops, lastSrv, srv_calls>>
    /\ UNCHANGED <<ledgerVars, errorVars, observerVars, processVars, outputVars,
                 clientVars, pluginVars, trackVars>>

\* serve(), lines 52-59: the payload is parsed, handle() is called and
\* returns resp_body, and the response is sent
ServeRequest(resp_body) ==
    /\ server.pc = "handle"
    /\ LET req_body == json_loads(server.payload)
           sends == truth(resp_body) /\ server.client_address # NoneValue
       IN  IF req_body.raised # NoneValue
           THEN /\ server' = [server EXCEPT !.pc = "crashed", !.raised = req_body.raised]
                /\ UNCHANGED <<handled, sent>>
           ELSE /\ server' = [server EXCEPT !.pc = "while"]
                /\ handled' = Append(handled,
                                [payload |-> server.payload, resp_body |-> resp_body,
                                 client_address |-> server.client_address,
                                 parts |-> server.parts,
                                 sent |-> IF sends THEN 1 ELSE 0])
                /\ sent' = IF sends
                           THEN Append(sent, [datagram |-> json_dumps(resp_body),
                                              address |-> server.client_address])
                           ELSE sent
    /\ UNCHANGED <<inbox, wire, sockets, socket_file, loops, lastSrv, srv_calls>>
    /\ UNCHANGED <<ledgerVars, errorVars, observerVars, processVars, outputVars,
                 clientVars, pluginVars, trackVars>>

\* the process that serves a socket file is gone; the file stays
ServerGone(api_file) ==
    /\ api_file \in alive
    /\ alive' = alive \ {api_file}
    /\ UNCHANGED <<dead_sockets, lastComm, comms>>
    /\ UNCHANGED <<ledgerVars, errorVars, observerVars, processVars, outputVars,
                   serverVars, pluginVars, trackVars>>

\* client.communicate(req, include), as far as it gets: it returns, or it
\* waits in recv() for ever
Communicate(client, req, include, silent) ==
    /\ comms < MaxCommunicates
    /\ comms' = comms + 1
    /\ LET r == communicate(client, dead_sockets[client], alive, silent, req, include)
       IN  /\ dead_sockets' = [dead_sockets EXCEPT ![client] = r.g.dead_sockets]
           /\ lastComm' = [op |-> "communicate", client |-> client, req |-> req,
                           include |-> include, alive |-> alive, silent |-> silent,
                           pre |-> dead_sockets, sends |-> r.g.sends,
                           responses |-> r.responses, returned |-> ~r.g.blocked]
    /\ UNCHANGED alive
    /\ UNCHANGED <<ledgerVars, errorVars, observerVars, processVars, outputVars,
                   serverVars, pluginVars, trackVars>>

\* a module appears on the import path
InstallModule(name, module) ==
    /\ installs < MaxInstalls
    /\ name \notin DOMAIN modules
    /\ installs' = installs + 1
    /\ modules' = (name :> module) @@ modules
    /\ UNCHANGED lastDiscover
    /\ UNCHANGED <<ledgerVars, errorVars, observerVars, processVars, outputVars,
                   serverVars, clientVars, trackVars>>

\* discover_plugins(Prefix, names)
DiscoverPlugins(names) ==
    /\ LET r == discover_plugins(modules, Prefix, names)
       IN  lastDiscover' = [op |-> "discover_plugins", names |-> names, pre |-> modules,
                            raised |-> r.raised, name2listener |-> r.name2listener]
    /\ UNCHANGED <<modules, installs>>
    /\ UNCHANGED <<ledgerVars, errorVars, observerVars, processVars, outputVars,
                   serverVars, clientVars, trackVars>>

\* ProgressInfo(completed, total)
NewProgressInfo(completed, total) ==
    /\ progress' = [completed |-> completed, total |-> total]
    /\ UNCHANGED <<readout, task, added, roundtrip>>
    /\ UNCHANGED <<ledgerVars, errorVars, observerVars, processVars, outputVars,
                   serverVars, clientVars, pluginVars>>

\* the properties pct_done and is_finished of the progress are read
ReadProgress ==
    /\ readout' = [op |-> "read", of |-> progress,
                   pct_done |-> pct_done(progress), is_finished |-> is_finished(progress)]
    /\ UNCHANGED <<progress, task, added, roundtrip>>
    /\ UNCHANGED <<ledgerVars, errorVars, observerVars, processVars, outputVars,
                   serverVars, clientVars, pluginVars>>

\* MutableTrackedTask(name, max_events)
NewTask(max_events) ==
    /\ task' = [max_events |-> max_events, _events |-> <<>>]
    /\ added' = <<>>
    /\ UNCHANGED <<progress, readout, roundtrip>>
    /\ UNCHANGED <<ledgerVars, errorVars, observerVars, processVars, outputVars,
                   serverVars, clientVars, pluginVars>>

\* task.add_event(name), the timestamp left at None
AddEvent(name) ==
    /\ Len(added) < MaxAdds
    /\ task' = [task EXCEPT !._events = deque_append(@, task.max_events, <<name, NoneValue>>)]
    /\ added' = Append(added, <<name, NoneValue>>)
    /\ UNCHANGED <<progress, readout, roundtrip>>
    /\ UNCHANGED <<ledgerVars, errorVars, observerVars, processVars, outputVars,
                   serverVars, clientVars, pluginVars>>

\* TrackedTaskInfo.from_dict(x.to_dict()) of a task snapshot x
RoundTrip(x) ==
    /\ LET d == TrackedTask_to_dict(x)
       IN  roundtrip' = [op |-> "round trip", x |-> x, raised |-> d.raised,
                         y |-> IF d.raised = NoneValue
                               THEN TrackedTaskInfo_from_dict(d.dict) ELSE x]
    /\ UNCHANGED <<progress, readout, task, added>>
    /\ UNCHANGED <<ledgerVars, errorVars, observerVars, processVars, outputVars,
                   serverVars, clientVars, pluginVars>>

(***************************************************************************)
(* Specifications.                                                         *)
(***************************************************************************)
\* the live ledger alone
Next ==
    \/ Tick
    \/ \E new_state \in Inputs : SetState(new_state)

Spec == Init /\ [][Next]_vars

\* the live ledger and the snapshots taken of it
NextInfo ==
    \/ Tick
    \/ \E new_state \in Inputs : SetState(new_state)
    \/ CreateInfoCopy
    \/ CreateInfoDeepCopy

SpecInfo == Init /\ [][NextInfo]_vars

\* construction of ExecutionError objects
NextError ==
    \/ \E message \in {"Process interrupted", "Process returned non-zero code"},
          exec_state \in ExecutionState, unexpected_error \in {NoneValue, "OSError"} :
            NewExecutionError(message, exec_state, unexpected_error)
    \/ \E e \in {"OSError", "KeyError"} : FromUnexpectedError(e)

SpecError == Init /\ [][NextError]_vars

\* registration of output observers and the fan-out of output lines to them
NextObservers ==
    \/ \E observer \in ObserverPool : AddOutputObserver(observer)
    \/ \E observer \in ObserverPool : RemoveOutputObserver(observer)
    \/ NotifyBegin
    \/ NotifyObserver
    \/ NotifyReturn

SpecObservers == Init /\ [][NextObservers]_vars

\* an instance run by the runner, its ProcessExecution, and a thread that
\* stops or interrupts it
NextProcess ==
    \/ Tick
    \/ \E kind \in {"ProcessExecution", "AsyncExecution"} : RunnerCreate(kind)
    \/ RunnerRun
    \/ ExecuteBegin
    \/ ExecuteCreate
    \/ ExecuteStart
    \/ \E exitcode \in ExitCodes(TRUE) : ChildExit(exitcode)
    \/ ExecuteJoin
    \/ ExecuteAfter
    \/ StopCall
    \/ InterruptCall
    \/ CtlTerminate

SpecProcess == Init /\ [][NextProcess]_vars

\* the child writing to its captured stdout, the queue, and the consumer
NextOutput ==
    \/ \E observer \in OutputObservers : AddOutputObserver(observer)
    \/ \E text \in Texts : CaptureWrite(text)
    \/ CaptureEnd
    \/ ReadStart
    \/ ReadOutput

SpecOutput == Init /\ [][NextOutput]_vars

\* the socket server, its clients, and a thread that stops it
NextServer ==
    \/ \E datagram \in Datagrams, address \in Addresses : ClientSend(datagram, address)
    \/ \E env \in StartEnv : ServerStart(env)
    \/ ServerStop
    \/ ServerClose
    \/ ServeWhile
    \/ ReceiveDatagram
    \/ \E resp_body \in Responses : ServeRequest(resp_body)

SpecServer == Init /\ [][NextServer]_vars

\* the server's life: start(), stop() and close() in any order, with clients
\* that send the document on its own or an empty datagram
NextLifecycle ==
    \/ \E address \in Addresses : ClientSend(Document, address)
    \/ ClientSend(<<>>, NoneValue)
    \/ \E env \in StartEnv : ServerStart(env)
    \/ ServerStop
    \/ ServerClose
    \/ ServeWhile
    \/ ReceiveDatagram
    \/ \E resp_body \in {r \in Responses : r.type = "dict"} : ServeRequest(resp_body)

SpecLifecycle == Init /\ [][NextLifecycle]_vars

\* a server and two bound clients that send to it at the same time
NextPeers ==
    \/ \E datagram \in Datagrams, address \in Peers : ClientSend(datagram, address)
    \/ \E env \in StartEnv : ServerStart(env)
    \/ ServeWhile
    \/ ReceiveDatagram
    \/ \E resp_body \in Responses : ServeRequest(resp_body)

SpecPeers == Init /\ [][NextPeers]_vars

\* two clients, the socket files they find, and servers that go away
NextClient ==
    \/ \E api_file \in {SocketFiles[k] : k \in 1..Len(SocketFiles)} : ServerGone(api_file)
    \/ \E client \in Clients, req \in Requests, include \in Includes,
          silent \in Silences :
          Communicate(client, req, include, silent)

SpecClient == Init /\ [][NextClient]_vars

\* modules come onto the import path and plugins are discovered among them
NextPlugin ==
    \/ \E name \in ModuleNames, module \in Modules : InstallModule(name, module)
    \/ \E names \in NamesLists : DiscoverPlugins(names)

SpecPlugin == Init /\ [][NextPlugin]_vars

\* progresses are made and read; tasks are made and given events
NextTrack ==
    \/ \E completed \in ProgressValues, total \in ProgressValues :
          NewProgressInfo(completed, total)
    \/ ReadProgress
    \/ \E max_events \in 1..MaxCapacity : NewTask(max_events)
    \/ \E name \in EventNames : AddEvent(name)

SpecTrack == Init /\ [][NextTrack]_vars

\* task snapshots are turned into dicts and read back
NextSnapshot == \E x \in Snapshots : RoundTrip(x)

SpecSnapshot == Init /\ [][NextSnapshot]_vars

(***************************************************************************)
(* Properties of the ledger.                                               *)
(***************************************************************************)
\* C1: set_state(X) with X the ledger's current state returns false and leaves
\* the ledger as it was: no entry is added and X's timestamp is not overwritten.
C1_SameStateIsNoOp ==
    (last.op = "set_state" /\ last.arg = state(last.pre))
        => (last.ret = FALSE /\ Ledger = last.pre)

\* set_state(X) was called on a ledger whose current state X was entered at
\* an earlier time
C1_Witness ==
    /\ last.op = "set_state"
    /\ last.pre # <<>>
    /\ last.arg = state(last.pre)
    /\ last.at > last_changed(last.pre)[1]

\* C2: set_state(NONE) returns false and changes nothing whatever the ledger
\* holds, and NONE is never a key of a ledger built by set_state calls.
C2_NoneNeverStored ==
    /\ (last.op = "set_state" /\ last.arg = "NONE")
          => (last.ret = FALSE /\ Ledger = last.pre)
    /\ "NONE" \notin Keys(Ledger)

\* set_state(NONE) was called on a ledger that holds entries
C2_Witness ==
    /\ last.op = "set_state"
    /\ last.arg = "NONE"
    /\ Len(last.pre) >= 2

\* C3: once the current state is terminal, no set_state call changes the
\* current state.
C3_TerminalIsFinal ==
    (last.op = "set_state" /\ is_terminal(state(last.pre)))
        => state(Ledger) = state(last.pre)

\* C4: set_state returns true exactly when the current state after the call is
\* new_state and differs from the current state before the call.
C4_ReturnsWhetherChanged ==
    last.op = "set_state"
        => (last.ret = TRUE <=>
               (state(Ledger) = last.arg /\ state(last.pre) # last.arg))

\* C5: with a non-decreasing clock the timestamps in ledger order are
\* non-decreasing, and the last entry is the most recent transition.
C5_Chronological ==
    /\ \A i, j \in 1..Len(Ledger) :
          i < j => Ledger[i].changed <= Ledger[j].changed
    /\ (last.op = "set_state" /\ last.ret = TRUE)
          => (state(Ledger) = last.arg /\ last_changed(Ledger) = Some(last.at))

\* C6: an empty ledger reports state NONE, no started, finished or
\* last-changed timestamp, no execution time, executed() false, and is not
\* terminal; and state() is NONE only for an empty ledger.
C6_EmptyLedger ==
    /\ Len(Ledger) = 0 =>
          /\ state(Ledger) = "NONE"
          /\ execution_started(Ledger) = None
          /\ execution_finished(Ledger) = None
          /\ last_changed(Ledger) = None
          /\ execution_time(Ledger) = None
          /\ ~executed(Ledger)
          /\ ~is_terminal(state(Ledger))
    /\ state(Ledger) = "NONE" => Len(Ledger) = 0

\* the ledger is still empty after a set_state call
C6_Witness ==
    /\ last.op = "set_state"
    /\ Len(Ledger) = 0

\* the positions of the ledger's EXECUTING entries
ExecutingAt(d) == {i \in 1..Len(d) : d[i].state \in {"TRIGGERED", "STARTED", "RUNNING"}}

\* the first of a non-empty set of positions
First(S) == CHOOSE i \in S : \A j \in S : i <= j

\* C7: execution_started() is the timestamp of the first EXECUTING entry in
\* ledger order, or absent; execution_finished() is the current state's
\* timestamp if and only if the current state is terminal, otherwise absent;
\* execution_time() is finished minus started, absent when either is absent.
C7_DerivedTimestamps ==
    LET d == Ledger
        started == execution_started(d)
        finished == execution_finished(d)
        terminal == Len(d) > 0 /\ "TERMINAL" \in groups[d[Len(d)].state]
    IN  /\ started = IF ExecutingAt(d) = {} THEN None
                     ELSE Some(d[First(ExecutingAt(d))].changed)
        /\ finished = IF terminal THEN Some(d[Len(d)].changed) ELSE None
        /\ execution_time(d) = IF started = None \/ finished = None THEN None
                               ELSE Some(finished[1] - started[1])

\* a ledger with two EXECUTING entries of different times and a terminal
\* current state entered later
C7_Witness ==
    /\ Cardinality(ExecutingAt(Ledger)) = 2
    /\ \E i, j \in ExecutingAt(Ledger) : Ledger[i].changed < Ledger[j].changed
    /\ is_terminal(state(Ledger))
    /\ execution_time(Ledger) = Some(MaxClock)

(***************************************************************************)
(* Properties of ExecutionError.                                           *)
(***************************************************************************)
\* C8: constructing an ExecutionError with a state outside FAILURE raises
\* ValueError and leaves no object, so every ExecutionError that exists carries
\* a state that is a failure and terminal; every FAILURE state is TERMINAL.
C8_ErrorStateIsFailure ==
    /\ (lastError.op # "none" /\ "FAILURE" \notin groups[lastError.exec_state])
          => (lastError.raised = "ValueError" /\ errors = lastError.pre)
    /\ \A e \in errors :
          {"FAILURE", "TERMINAL"} \subseteq groups[e.exec_state]
    /\ \A s \in ExecutionState :
          "FAILURE" \in groups[s] => "TERMINAL" \in groups[s]

\* a construction with a terminal state that is no failure was refused while
\* an error built by from_unexpected_error exists
C8_Witness ==
    /\ lastError.op = "init"
    /\ lastError.exec_state = "COMPLETED"
    /\ lastError.raised = "ValueError"
    /\ \E e \in errors : e.message = "Unexpected error" /\ e.exec_state = "ERROR"

(***************************************************************************)
(* Properties of the snapshots.                                            *)
(***************************************************************************)
\* C9: the lifecycle held by a JobInfo does not change when set_state is later
\* called on the live ledger, for the shallow and the deep copy alike.
C9_SnapshotImmutable ==
    \A i \in 1..Len(infos) : heap[infos[i].state_changes] = infos[i].taken

\* the same, for the lifecycles made by __deepcopy__
C9_DeepCopyImmutable ==
    \A i \in 1..Len(infos) :
        infos[i].how = "deepcopy" => heap[infos[i].state_changes] = infos[i].taken

(***************************************************************************)
(* Properties of the observers' dispatch.                                  *)
(***************************************************************************)
\* how many times x occurs in the list l
Count(l, x) == Cardinality({i \in 1..Len(l) : l[i] = x})

\* the observers _notify_output_observers can invoke
Supported == {o \in ObserverPool : o.kind # "unsupported"}

\* C10: whichever registered observers raise, no exception leaves the
\* notifying call, and when it returns every registered observer was invoked
\* with the output, once for each time it is registered.
C10_FaultIsolation ==
    /\ notify.pc # "raised"
    /\ notify.pc = "returned" =>
          \A o \in Supported : Count(delivered, o) = Count(output_observers, o)

\* a call returned with three observers registered, of which the second
\* raises and the first and third do not
C10_Witness ==
    /\ notify.pc = "returned"
    /\ Len(output_observers) = 3
    /\ output_observers[1].kind = "ExecutionOutputObserver"
    /\ output_observers[1].raises = NoneValue
    /\ output_observers[2].raises = "KeyboardInterrupt"
    /\ output_observers[3].kind = "callable"
    /\ output_observers[3].raises = NoneValue
    /\ Len(delivered) = 3

\* C11: observers fire in registration order (no priority can be given to
\* add_output_observer), and removing an observer stops its notifications
\* and leaves the others in the order they had.
C11_DispatchOrder ==
    /\ notify.pc = "returned" =>
          delivered = SelectSeq(output_observers, LAMBDA o : o \in Supported)
    /\ lastReg.op = "add" =>
          output_observers = Append(lastReg.pre, lastReg.observer)
    /\ lastReg.op = "remove" =>
          /\ output_observers = SelectSeq(lastReg.pre, LAMBDA o : o # lastReg.observer)
          /\ \A i \in 1..Len(delivered) : delivered[i] # lastReg.observer

NeverSignalled == exec.pc = "done" /\ ~seen.stop /\ ~seen.interrupt

Returned(exec_state) == exec.outcome.kind = "return" /\ exec.outcome.state = exec_state

Raised(exec_state) ==
    exec.outcome.kind = "raise" /\ exec.outcome.error.exec_state = exec_state

\* C13: with no stop() and no interrupt(), execute() starts the child, waits
\* for it, and returns COMPLETED if and only if the exit code is 0; any other
\* exit code raises an ExecutionError in state FAILED whose message carries
\* the exit code.  Whatever execute() returns is a terminal state.
C13_ExitCodeDecides ==
    /\ (exec.pc = "done" /\ exec.outcome.kind = "return") =>
            is_terminal(exec.outcome.state)
    /\ NeverSignalled =>
            /\ exec.spawned
            /\ process.st = "exited"
            /\ Returned("COMPLETED") <=> process.exitcode = 0
            /\ process.exitcode # 0 =>
                    /\ Raised("FAILED")
                    /\ exec.outcome.error.message =
                            <<"Process returned non-zero code ", process.exitcode>>

\* the child exited with 1, nobody stopped or interrupted, FAILED was raised
C13_Witness ==
    /\ NeverSignalled
    /\ process.exitcode = 1
    /\ Raised("FAILED")

\* interrupt() was called while execute() waited in join() and execute() is over
InterruptedInJoin == exec.pc = "done" /\ seen.interrupt_in_join

\* C14 as stated: an interrupt() during join() always ends in INTERRUPTED.
C14_AlwaysInterrupted == InterruptedInJoin => Raised("INTERRUPTED")

\* C14: after an interrupt() during join(), execute() never reports FAILED:
\* it returns COMPLETED if the child still exits with 0, and otherwise raises
\* INTERRUPTED unless stop() was called too, which may turn it into STOPPED.
C14_InterruptedNotFailed ==
    InterruptedInJoin =>
        /\ ~Raised("FAILED")
        /\ process.exitcode = 0 => Returned("COMPLETED")
        /\ (process.exitcode # 0 /\ ~seen.stop) => Raised("INTERRUPTED")
        /\ (process.exitcode # 0 /\ seen.stop) =>
                Returned("STOPPED") \/ Raised("INTERRUPTED")

\* the child was ended by the signal of an interrupt() made during join()
C14_Witness ==
    /\ InterruptedInJoin
    /\ ~seen.stop
    /\ process.signalled
    /\ process.exitcode = 0 - SIGTERM
    /\ Raised("INTERRUPTED")

\* stop() or interrupt() had been called when execute() was invoked
SignalledBefore == exec.pc = "done" /\ (exec.entry[1] \/ exec.entry[2])

\* C15: if stop() or interrupt() was called before execute() is invoked, no
\* child is created; execute() returns STOPPED after stop() and raises
\* INTERRUPTED after interrupt() (STOPPED wins when both were called).
C15_NoChildAfterSignal ==
    SignalledBefore =>
        /\ ~exec.spawned
        /\ process = NoProcess
        /\ Returned("STOPPED") \/ Raised("INTERRUPTED")
        /\ exec.entry[1] => Returned("STOPPED")
        /\ ~seen.stop => Raised("INTERRUPTED")

\* interrupt() alone came before execute(), which raised INTERRUPTED
C15_Witness ==
    /\ SignalledBefore
    /\ exec.entry = <<FALSE, TRUE>>
    /\ ~seen.stop
    /\ Raised("INTERRUPTED")
    /\ process = NoProcess

\* C16: a stop() or interrupt() called after execute() has finished is
\* ignored: the execution's flags and process are what they were before it.
C16_SignalAfterFinishIgnored ==
    (ctl.op # "none" /\ ctl.at = "done") =>
        /\ stopped = ctl.pre[1]
        /\ interrupted = ctl.pre[2]
        /\ process = ctl.pre[3]

\* C17: the queue never holds more than its maxsize; a write() puts the
\* stripped text unless it is empty or the queue is full, in which case the
\* line is dropped and the queue is left as it was; the text reaches the
\* original stdout either way, and write() can always be made: it never waits.
C17_BoundedDropIfFull ==
    /\ Len(output_queue) <= QueueMaxsize
    /\ writer.last.op = "write" =>
          /\ writer.last.post =
                IF rstrip(writer.last.text) # <<>> /\ Len(writer.last.pre) < QueueMaxsize
                THEN Append(writer.last.pre, rstrip(writer.last.text))
                ELSE writer.last.pre
          /\ writer.last.out = writer.last.text
    /\ (writer.pc = "running" /\ writer.written < MaxWrites) =>
          \A text \in Texts : ENABLED CaptureWrite(text)

\* a line was written while the queue was full, and was dropped
C17_Witness ==
    /\ writer.last.op = "write"
    /\ Len(writer.last.pre) = QueueMaxsize
    /\ rstrip(writer.last.text) # <<>>
    /\ ~writer.last.put
    /\ writer.last.post = writer.last.pre
    /\ writer.last.out = writer.last.text

\* the lines got, in the order they were got
ReceivedLines == [k \in 1..Len(received) |-> received[k].line]

\* what is got is what was accepted, in order, and each line got has been
\* given to every supported observer registered at that time, in order
DeliveredInOrder ==
    /\ ReceivedLines \o output_queue = accepted
    /\ \A k \in 1..Len(received) :
          received[k].to = SelectSeq(received[k].registered, LAMBDA o : o \in Supported)

\* C18: every accepted line is delivered, in order, to every registered
\* observer, and once the child has exited and the queue is drained the
\* consumer ends: it is done, or its loop can still take the turn that ends it.
C18_DeliveredAndTerminates ==
    /\ DeliveredInOrder
    /\ (writer.pc = "exited" /\ output_queue = <<>> /\ reader.pc # "idle") =>
          reader.pc = "done" \/ ENABLED ReadOutput

\* the document behind its length, sent in two datagrams from one source
SplitWires ==
    {<<[datagram |-> <<"4", "[", "[">>, address |-> a],
       [datagram |-> <<"]", "]">>, address |-> a]>> : a \in Addresses}
    \cup {<<[datagram |-> <<"4">>, address |-> a],
            [datagram |-> Document, address |-> a]>> : a \in Addresses}

\* a step of the thread that runs serve()
ServeStep ==
    \/ ServeWhile
    \/ ReceiveDatagram
    \/ \E resp_body \in Responses : ServeRequest(resp_body)

\* C19: when a length-prefixed document has been sent in two datagrams from
\* one source to a running server, handle() is called with the whole document
\* and with nothing else, once: it has been called, or serve() can still go on.
C19_Reassembled ==
    (wire \in SplitWires /\ server.pc # "new" /\ ~server.stopped) =>
        /\ Len(handled) <= 1
        /\ \A k \in 1..Len(handled) : handled[k].payload = Document
        /\ Len(handled) = 1 \/ ENABLED ServeStep

is_not_none(resp_body) == resp_body.type # "NoneType"

\* C20: for every request handled, one response datagram is sent if handle()
\* returned anything but None, empty and zero values included, and the
\* client's address is known; none is sent otherwise.
C20_OneResponse ==
    /\ \A k \in 1..Len(handled) :
          handled[k].sent =
             IF is_not_none(handled[k].resp_body) /\ handled[k].client_address # NoneValue
             THEN 1 ELSE 0
    /\ \A k \in 1..Len(sent) :
          \E h \in 1..Len(handled) :
             /\ handled[h].sent = 1
             /\ sent[k].address = handled[h].client_address

\* the datagram is a decimal length followed by exactly that many bytes
IsFramed(datagram) ==
    LET digits == LeadingDigits(datagram)
    IN  /\ digits # <<>>
        /\ DecimalValue(digits) = Len(datagram) - Len(digits)

\* C21: every datagram the server sends in response is framed: the decimal
\* length of the payload, then exactly that many payload bytes.
C21_ResponsesFramed == \A k \in 1..Len(sent) : IsFramed(sent[k].datagram)

\* C22: once stop() has been called on a started server the serve loop ends:
\* it has ended, or the serve thread can still take a step towards its end,
\* also when no datagram is left to receive.
C22_StopEndsLoop ==
    (server.stopped /\ server.pc \notin {"new", "crashed"}) =>
        server.pc = "ended" \/ ENABLED ServeStep

\* C23: after close() on a started server the socket file is gone and the
\* serve loop ends (it has ended or can still step to its end); close() on a
\* server that was never started touches no socket and no file and raises
\* nothing; start() on a stopped server returns False and binds nothing.
C23_CloseCleansUp ==
    /\ (lastSrv.op = "close" /\ lastSrv.pre.loops > 0) =>
          /\ socket_file = 0
          /\ server.pc \in {"ended", "crashed"} \/ ENABLED ServeStep
    /\ (lastSrv.op = "close" /\ lastSrv.pre._server = 0) =>
          /\ lastSrv.raised = NoneValue
          /\ sockets = lastSrv.pre.sockets
          /\ socket_file = lastSrv.pre.socket_file
    /\ (lastSrv.op = "start" /\ lastSrv.pre.stopped) =>
          /\ lastSrv.ret = "False"
          /\ sockets = lastSrv.pre.sockets
          /\ socket_file = lastSrv.pre.socket_file
          /\ loops = lastSrv.pre.loops

\* the datagrams received so far that hold the document on its own
ReceivedDocuments ==
    SelectSeq(SubSeq(wire, 1, Len(wire) - Len(inbox)),
              LAMBDA d : d.datagram = Document)

\* C24: whatever start(), stop() and close() calls are made, at most one
\* serve thread is ever started; requests are handled one at a time, in the
\* order they were received.
C24_OneServeLoop ==
    /\ loops <= 1
    /\ Len(handled) <= Len(ReceivedDocuments)
    /\ Len(ReceivedDocuments) <= Len(handled) + 1
    /\ \A k \in 1..Len(handled) :
          /\ handled[k].payload = ReceivedDocuments[k].datagram
          /\ handled[k].client_address = ReceivedDocuments[k].address

\* start() was called again on a server that was serving, no second thread
\* was started, and two requests have been handled
C24_Witness ==
    /\ lastSrv.op = "start"
    /\ lastSrv.pre.loops = 1
    /\ ~lastSrv.pre.stopped
    /\ loops = 1
    /\ Len(handled) = 2

\* the members of a sequence
Members(seq) == {seq[k] : k \in 1..Len(seq)}

\* the socket files the last communicate() call had to contact, in discovery
\* order: not known dead to its client before the call, and selected by include
Eligible ==
    SelectSeq(SocketFiles,
              LAMBDA f : /\ f \notin Members(lastComm.pre[lastComm.client])
                         /\ (lastComm.include = {} \/ f \in lastComm.include))

\* C25: a bidirectional client's communicate() returns exactly one response
\* per live contacted server, in discovery order, wherever the dead servers
\* sit among the socket files.
C25_OneResponsePerLiveServer ==
    (lastComm.op = "communicate" /\ lastComm.returned
        /\ bidirectional(lastComm.client)) =>
        LET live == SelectSeq(Eligible, LAMBDA f : f \in lastComm.alive)
        IN  lastComm.responses =
               [k \in 1..Len(live) |-> InstanceResponse(live[k], ServerReply(live[k]))]

\* C26: a socket whose send was refused is remembered by the client and never
\* sent to again, in the same call or a later one; the client's dead list only
\* grows, holds no file twice, and is its own: a call changes no other
\* client's list, and a client sends to a file that another one knows dead.
C26_DeadPeerMemory ==
    /\ \A client \in Clients :
         \A j, k \in 1..Len(dead_sockets[client]) :
            dead_sockets[client][j] = dead_sockets[client][k] => j = k
    /\ lastComm.op = "communicate" =>
         LET own == lastComm.pre[lastComm.client]
             refusals == SelectSeq(lastComm.sends, LAMBDA m : m.refused)
         IN  /\ \A k \in 1..Len(lastComm.sends) :
                  /\ lastComm.sends[k].file \notin Members(own)
                  /\ \A j \in 1..Len(lastComm.sends) :
                        lastComm.sends[j].file = lastComm.sends[k].file => j = k
             /\ dead_sockets[lastComm.client] =
                  own \o [k \in 1..Len(refusals) |-> refusals[k].file]
             /\ \A client \in Clients \ {lastComm.client} :
                  dead_sockets[client] = lastComm.pre[client]
             /\ (truth(lastComm.req) /\ lastComm.returned) =>
                  \A f \in Members(Eligible) :
                     \E k \in 1..Len(lastComm.sends) : lastComm.sends[k].file = f

\* a client that knows "b" dead calls again, skips it, and is refused by "a",
\* which only the other client knew dead
C26_Witness ==
    /\ lastComm.op = "communicate"
    /\ lastComm.client = 1
    /\ lastComm.pre[1] = <<"b">>
    /\ lastComm.pre[2] = <<"a">>
    /\ lastComm.include = {}
    /\ truth(lastComm.req)
    /\ dead_sockets[1][2] = "a"
    /\ dead_sockets[2] = <<"a">>

\* C27: communicate(req, include) sends the request exactly once to every
\* discovered socket file that is not known dead and whose instance id is in
\* include (to all of them when include is empty), and to no other file.
C27_SentOnceToEachIncluded ==
    (lastComm.op = "communicate" /\ lastComm.returned) =>
        /\ Len(lastComm.sends) = Len(Eligible)
        /\ \A k \in 1..Len(lastComm.sends) :
              /\ lastComm.sends[k].file = Eligible[k]
              /\ lastComm.sends[k].datagram = json_dumps(lastComm.req)

\* the module loads validly: it imports, has the factory, the factory returns
\* a listener, and the listener's state_update is callable with one parameter
LoadsValidly(module) ==
    /\ module.imports
    /\ module.factory
    /\ module.listener # NoneValue
    /\ module.state_update = "callable"
    /\ module.parameters = 1

\* C28: load_plugin raises AttributeError for a missing factory and for a
\* state_update that is missing, not callable or not single-argument, and
\* ValueError for a None listener; discover_plugins returns exactly the
\* requested names that are discovered and load validly, each with its
\* listener, and never raises, whatever the other plugins do.
C28_PluginsIsolated ==
    /\ \A module \in Modules :
         /\ ~module.factory => load_plugin(module).raised = "AttributeError"
         /\ (module.factory /\ module.listener = NoneValue) =>
               load_plugin(module).raised = "ValueError"
         /\ (module.factory /\ module.listener # NoneValue
               /\ (module.state_update # "callable" \/ module.parameters # 1)) =>
               load_plugin(module).raised = "AttributeError"
         /\ LoadsValidly(module) =>
               load_plugin(module) = [raised |-> NoneValue, ret |-> module.listener]
    /\ lastDiscover.op = "discover_plugins" =>
         /\ lastDiscover.raised = NoneValue
         /\ DOMAIN lastDiscover.name2listener =
              {name \in Members(lastDiscover.names) :
                  /\ name \in DOMAIN lastDiscover.pre
                  /\ startswith(name, Prefix)
                  /\ LoadsValidly(lastDiscover.pre[name])}
         /\ \A name \in DOMAIN lastDiscover.name2listener :
              lastDiscover.name2listener[name] = lastDiscover.pre[name].listener

\* a plugin whose state_update takes two parameters is requested before a
\* valid one, and only the valid one is returned
C28_Witness ==
    /\ lastDiscover.op = "discover_plugins"
    /\ lastDiscover.names = <<<<"taro_", "a">>, <<"taro_", "b">>>>
    /\ DOMAIN lastDiscover.pre = {<<"taro_", "a">>, <<"taro_", "b">>}
    /\ lastDiscover.pre[<<"taro_", "a">>].parameters = 2
    /\ DOMAIN lastDiscover.name2listener = {<<"taro_", "b">>}

\* C29: for completed and total that are None or a bounded integer, 0
\* included: is_finished is true exactly when both are set and equal, and
\* pct_done is completed/total when both are numbers and None otherwise,
\* without raising.
C29_ProgressProperties ==
    LET p == readout.of
        set == p.completed.type # "NoneType" /\ p.total.type # "NoneType"
    IN  /\ truth(readout.is_finished) <=> (set /\ p.completed.n = p.total.n)
        /\ readout.pct_done.raised = NoneValue
        /\ set => /\ readout.pct_done.type = "float"
                  /\ readout.pct_done.n * p.total.n = p.completed.n * readout.pct_done.d
        /\ ~set => readout.pct_done.type = "NoneType"

\* the last k elements of a sequence
LastOf(seq, k) == SubSeq(seq, Len(seq) - k + 1, Len(seq))

DocumentPlaces ==
    SelectSeq([k \in 1..Len(wire) |-> k], LAMBDA k : wire[k].datagram = Document)

\* C33: once stop() has returned on a running server, no request that arrives
\* afterwards is passed to handle(), and so none is answered: every request
\* handled was sent before stop() was called.
C33_NoHandleAfterStop ==
    (server.stopped /\ server.pc # "new") =>
        \A k \in 1..Len(handled) : DocumentPlaces[k] <= server.stopped_at

RECURSIVE Concat(_)
\* the datagrams of a sequence of parts, one after the other
Concat(parts) ==
    IF parts = <<>> THEN <<>> ELSE Head(parts).datagram \o Concat(Tail(parts))

\* C34: while a request is being received, bytes accumulated are kept: when
\* the first datagram carried a length and the datagrams after it, whatever
\* they begin with, have not yet made up that length, the payload is what
\* followed the length in the first one and then every later datagram whole,
\* and the server is still receiving.
C34_ContinuationAppended ==
    LET first == prefixed_payload_regex(Head(server.parts).datagram)
        accumulated == first.group2 \o Concat(Tail(server.parts))
    IN  (/\ server.parts # <<>>
         /\ \A k \in 1..Len(server.parts) : server.parts[k].datagram # <<>>
         /\ first.match
         /\ Len(accumulated) < DecimalValue(first.group1)) =>
            /\ server.pc = "recvfrom"
            /\ server.payload = accumulated

\* the requests handled that were answered
Answered == SelectSeq(handled, LAMBDA h : h.sent = 1)

\* C35: with two clients sending at the same time, every payload passed to
\* handle(), or about to be, was received in datagrams of one peer only, and
\* each response goes to the peer whose request it answers.
C35_PeersNotMerged ==
    /\ \A k \in 1..Len(handled) :
          \A j \in 1..Len(handled[k].parts) :
             handled[k].parts[j].address = handled[k].client_address
    /\ server.pc = "handle" =>
          \A j \in 1..Len(server.parts) : server.parts[j].address = server.client_address
    /\ Len(sent) = Len(Answered)
    /\ \A k \in 1..Len(sent) : sent[k].address = Answered[k].client_address

\* two peers have each sent a request, both were handled and each was answered
\* at its own address
C35_Witness ==
    /\ Len(handled) = 2
    /\ handled[1].client_address = "client"
    /\ handled[2].client_address = "peer"
    /\ Len(sent) = 2
    /\ sent[1].address = "client"
    /\ sent[2].address = "peer"

\* C36: a request whose payload is not valid JSON does not end the serve
\* loop: after the failure the thread that runs serve() is still there to
\* handle the requests that follow.
C36_FailureKeepsServing ==
    server.raised = "JSONDecodeError" => server.pc # "crashed"

\* C37: communicate() on a bidirectional client returns, also when a live
\* server it contacted sends no response for the request.
C37_CommunicateReturns ==
    (lastComm.op = "communicate" /\ bidirectional(lastComm.client)) => lastComm.returned

\* C38: every InstanceResponse that communicate() returns carries the
\* response that the server of its instance id produced for this request,
\* that server was sent the request in this call, and no response is there
\* twice, wherever dead and filtered servers sit.
C38_ResponsesCorrelated ==
    lastComm.op = "communicate" =>
        \A k \in 1..Len(lastComm.responses) :
           lastComm.responses[k] # NoneResponse =>
              /\ lastComm.responses[k].response =
                    ServerReply(lastComm.responses[k].instance)
              /\ \E m \in 1..Len(lastComm.sends) :
                    /\ lastComm.sends[m].file = lastComm.responses[k].instance
                    /\ ~lastComm.sends[m].refused
              /\ \A j \in 1..Len(lastComm.responses) :
                    lastComm.responses[j] = lastComm.responses[k] => j = k

\* "a" answers, "b" refuses and "c" answers a call that asks all three: the
\* two responses come back under their own ids
C38_Witness ==
    /\ lastComm.op = "communicate"
    /\ lastComm.returned
    /\ lastComm.include = {}
    /\ lastComm.alive = {"a", "c"}
    /\ lastComm.pre[lastComm.client] = <<>>
    /\ lastComm.responses = <<InstanceResponse("a", ServerReply("a")),
                              InstanceResponse("c", ServerReply("c"))>>

\* the last stop() or interrupt() was called while execute() was in progress
\* and has returned, not raised, before the child had exited
ReturnedInTime ==
    /\ ctl.op # "none"
    /\ ctl.pc = "idle"
    /\ ctl.raised = NoneValue
    /\ ctl.at \in {"begin", "create", "start", "join"}
    /\ ctl.st # "exited"

\* C39: a stop() or interrupt() that returns while execute() is in progress
\* and before the child has exited takes effect: the child has been sent the
\* terminate signal, or there is no child; and when the call was made before
\* the child was started, execute() does not return COMPLETED.
C39_SignalTakesEffect ==
    ReturnedInTime =>
        /\ process.signalled \/ ~exec.spawned
        /\ (exec.pc = "done" /\ ctl.at \in {"begin", "create", "start"}) =>
              ~Returned("COMPLETED")

\* C31: from_dict(to_dict(x)) of a task snapshot gives x again: the same
\* events, operations with the same progress (completed, total, unit,
\* timestamp) and subtasks, in the same order, with the same timestamps.
C31_RoundTrip ==
    roundtrip.op = "round trip" =>
        /\ roundtrip.raised = NoneValue
        /\ roundtrip.y = roundtrip.x

====
